---- MODULE Spec2Model ----
(***************************************************************************)
(* ThreadTally: mention extraction (extract_mentions_v2.py), the text      *)
(* normalizer and alias table (model_normalize.py), vote aggregation       *)
(* (score_votes_v2.py) and ranking (rank_models_v2.py).                    *)
(*                                                                         *)
(* Text is a sequence of one-character strings.  The two non-ASCII         *)
(* characters of the model are written "u2013" (EN DASH) and "uFF0D"       *)
(* (FULLWIDTH HYPHEN-MINUS).  Floats are fixed point: confidences in       *)
(* hundredths, vote weights in units of 10^-5, means as reduced fractions. *)
(***************************************************************************)
EXTENDS Integers, Sequences, FiniteSets, TLC

(***************************************************************************)
(* Characters                                                              *)
(***************************************************************************)
Digits == <<"0","1","2","3","4","5","6","7","8","9">>
Uppers == <<"A","B","C","D","E","F","G","H","I","J","K","L","M",
            "N","O","P","Q","R","S","T","U","V","W","X","Y","Z">>
Lowers == <<"a","b","c","d","e","f","g","h","i","j","k","l","m",
            "n","o","p","q","r","s","t","u","v","w","x","y","z">>

\* Printable ASCII in code-point order (32..126), then the two dashes.  The
\* double quote and the backslash are written "quot" and "bsol", the backquote "grave".
Ascii == <<" ","!","quot","#","$","%","&","'","(",")","*","+",",","-",".","/">>
         \o Digits \o <<":",";","<","=",">","?","@">> \o Uppers
         \o <<"[","bsol","]","^","_","grave">> \o Lowers \o <<"{","|","}","~">>
         \o <<"u2013","uFF0D">>

Range(f) == {f[i] : i \in DOMAIN f}
IndexOf(seq, c) == CHOOSE i \in DOMAIN seq : seq[i] = c
Ord(c) == IF c \in Range(Ascii) THEN IndexOf(Ascii, c) ELSE 0

DigitSet == Range(Digits)
UpperSet == Range(Uppers)
LowerSet == Range(Lowers)
IsDigit(c) == c \in DigitSet
IsAlpha(c) == c \in UpperSet \cup LowerSet
IsAlnum(c) == IsAlpha(c) \/ IsDigit(c)
\* regex \w and \s on the characters of the model
IsWord(c) == IsAlnum(c) \/ c = "_"
IsSpace(c) == c \in {" ", "\t", "\n", "\r"}

UpperC(c) == IF c \in LowerSet THEN Uppers[IndexOf(Lowers, c)] ELSE c
LowerC(c) == IF c \in UpperSet THEN Lowers[IndexOf(Uppers, c)] ELSE c
\* Every operator on strings starts by looking at its argument, so that the
\* argument is worked out before the operator and not in the middle of it.
Upper(s) == IF s = <<>> THEN <<>> ELSE [i \in 1..Len(s) |-> UpperC(s[i])]
Lower(s) == IF s = <<>> THEN <<>> ELSE [i \in 1..Len(s) |-> LowerC(s[i])]

\* s[a..b], empty when a > b
Slice(s, a, b) == IF a > b THEN <<>> ELSE SubSeq(s, a, b)

\* str < str : lexicographic by code point
StrLess(a, b) ==
    \E i \in 1..Len(b) :
        /\ i <= Len(a) + 1
        /\ \A j \in 1..(i - 1) : a[j] = b[j]
        /\ i = Len(a) + 1 \/ Ord(a[i]) < Ord(b[i])

\* the literal w occurs in s at position p (case-insensitively when ci)
LitAt(s, p, w, ci) ==
    /\ p >= 1
    /\ p + Len(w) - 1 <= Len(s)
    /\ \A i \in 1..Len(w) :
          \/ s[p + i - 1] = w[i]
          \/ ci /\ LowerC(s[p + i - 1]) = LowerC(w[i])

\* `w in s`
Contains(s, w) ==
    \/ w = <<>>
    \/ \E p \in 1..(Len(s) - Len(w) + 1) : s[p] = w[1] /\ LitAt(s, p, w, FALSE)

\* regex \b at the gap before position p (p in 1..Len(s)+1)
WordBoundary(s, p) ==
    LET before == p > 1 /\ IsWord(s[p - 1])
        after == p <= Len(s) /\ IsWord(s[p])
    IN before # after

\* number of leading characters of s from p on that satisfy a class
\* the length of the run of spaces (of digits) that starts at p
SpaceRun(s, p) ==
    IF p > Len(s) THEN 0
    ELSE (CHOOSE q \in p..(Len(s) + 1) :
            /\ q = Len(s) + 1 \/ ~IsSpace(s[q])
            /\ \A j \in p..(q - 1) : IsSpace(s[j])) - p
DigitRun(s, p) ==
    IF p > Len(s) THEN 0
    ELSE (CHOOSE q \in p..(Len(s) + 1) :
            /\ q = Len(s) + 1 \/ ~IsDigit(s[q])
            /\ \A j \in p..(q - 1) : IsDigit(s[j])) - p

(***************************************************************************)
(* re.sub: m[p] is the match that starts at p, [end |-> last index,        *)
(* rep |-> replacement], or NoMatch.  Matches are taken leftmost, without  *)
(* overlap, against the original string.                                   *)
(***************************************************************************)
NoMatch == [end |-> 0, rep |-> <<>>]
\* The scan over the positions lo..hi, entered at p >= lo: [out |-> the text
\* produced, next |-> where the scan goes on].  The stretch is scanned left
\* half first, so that the evaluation is no deeper than log2 of its length.
RECURSIVE SubRange(_, _, _, _, _)
SubRange(s, m, p, lo, hi) ==
    LET Leaf(mp) ==
            IF mp.end >= p THEN [out |-> mp.rep, next |-> mp.end + 1]
            ELSE [out |-> <<s[p]>>, next |-> p + 1]
        Join(l, r) == [out |-> l.out \o r.out, next |-> r.next]
        Right(mid, l) == Join(l, SubRange(s, m, l.next, mid + 1, hi))
        Halves(mid) == Right(mid, SubRange(s, m, p, lo, mid))
    IN IF p > hi THEN [out |-> <<>>, next |-> p]
       ELSE IF lo = hi THEN Leaf(m[p])
       ELSE Halves((lo + hi) \div 2)
ReSub(s, m) == IF s = <<>> THEN <<>> ELSE SubRange(s, m, 1, 1, Len(s)).out

\* str.strip()
LStrip(s) == Slice(s, SpaceRun(s, 1) + 1, Len(s))
RStrip(s) ==
    Slice(s, 1, CHOOSE q \in 0..Len(s) :
                    /\ q = 0 \/ ~IsSpace(s[q])
                    /\ \A j \in (q + 1)..Len(s) : IsSpace(s[j]))
Strip(s) == IF s = <<>> THEN <<>> ELSE RStrip(LStrip(s))

(***************************************************************************)
(* model_normalize.py                                                      *)
(***************************************************************************)
\* unicodedata.normalize("NFKC", s) on the characters of the model: the
\* fullwidth hyphen-minus decomposes to "-", every other one is unchanged.
_nfkc(s) == IF s = <<>> THEN <<>> ELSE [i \in 1..Len(s) |-> IF s[i] = "uFF0D" THEN "-" ELSE s[i]]

\* the members of _DASH_CHARS among the characters of the model
DASH_CHARS == {"u2013", "uFF0D"}
\* _DASH_RE.sub("-", s)
DashSub(s) == IF s = <<>> THEN <<>> ELSE [i \in 1..Len(s) |-> IF s[i] \in DASH_CHARS THEN "-" ELSE s[i]]

W_bowers == <<"b","o","w","e","r","s">>
W_wilkins == <<"w","i","l","k","i","n","s">>
W_and == <<"a","n","d">>
W_bw == <<"b","w">>
W_BandW == <<"B","&","W">>

\* _BW_PHRASE_RE matched at p: the index of its last character, or 0.
\* bowers \s* (&|and)? \s* wilkins between two \b; the second alternative
\* (bowers \s+ wilkins) matches nothing the first does not.
BWPhraseEnd(s, p) ==
    LET AtWilkins(q3) ==
            IF LitAt(s, q3, W_wilkins, TRUE) /\ WordBoundary(s, q3 + 7)
            THEN q3 + 6 ELSE 0
        AfterJoin(q2) == AtWilkins(q2 + SpaceRun(s, q2))
        AtJoin(q1) ==
            AfterJoin(IF LitAt(s, q1, <<"&">>, TRUE) THEN q1 + 1
                      ELSE IF LitAt(s, q1, W_and, TRUE) THEN q1 + 3
                      ELSE q1)
    IN IF ~(WordBoundary(s, p) /\ LitAt(s, p, W_bowers, TRUE)) THEN 0
       ELSE AtJoin(p + 6 + SpaceRun(s, p + 6))

\* _BW_RE matched at p: b \s* & \s* w | b \s+ and \s+ w | bw, between two \b
BWEnd(s, p) ==
    LET AtW(shape, q3) ==
            IF shape /\ LitAt(s, q3, <<"w">>, TRUE) /\ WordBoundary(s, q3 + 1)
            THEN q3 ELSE 0
        AfterJoin(k1, amp, nd, q2, k2) ==
            AtW(\/ amp
                \/ nd /\ k2 >= 1
                \/ k1 = 0 /\ ~amp,
                q2 + k2)
        Join(k1, amp, nd, q2) == AfterJoin(k1, amp, nd, q2, SpaceRun(s, q2))
        AtJoin(k1, q1, amp, nd) ==
            Join(k1, amp, nd, IF amp THEN q1 + 1 ELSE IF nd THEN q1 + 3 ELSE q1)
        AfterB(k1, q1) ==
            AtJoin(k1, q1, LitAt(s, q1, <<"&">>, TRUE),
                   k1 >= 1 /\ LitAt(s, q1, W_and, TRUE))
        Spaces(k1) == AfterB(k1, p + 1 + k1)
    IN IF ~(WordBoundary(s, p) /\ LitAt(s, p, <<"b">>, TRUE)) THEN 0
       ELSE Spaces(SpaceRun(s, p + 1))

BWPhraseSub(s, rep) ==
    IF s = <<>> THEN <<>> ELSE
    ReSub(s, [p \in 1..Len(s) |-> [end |-> BWPhraseEnd(s, p), rep |-> rep]])
BWSub(s, rep) ==
    IF s = <<>> THEN <<>> ELSE
    ReSub(s, [p \in 1..Len(s) |-> [end |-> BWEnd(s, p), rep |-> rep]])

prepare_text_for_matching(text) == BWPhraseSub(DashSub(_nfkc(text)), W_BandW)

\* re.sub(r"\s*-\s*", "-", s) after the dash characters became "-"
_normalize_dashes(s0) ==
    LET Sub(s) ==
            LET DashAt(q) ==
                    IF q <= Len(s) /\ s[q] = "-"
                    THEN [end |-> q + SpaceRun(s, q + 1), rep |-> <<"-">>]
                    ELSE NoMatch
            IN ReSub(s, [p \in 1..Len(s) |-> DashAt(p + SpaceRun(s, p))])
    IN IF s0 = <<>> THEN <<>> ELSE Sub(DashSub(s0))

\* the character class of _TRAIL_RE, on the characters of the model
IsTrail(c) == IsSpace(c) \/ c \in {".", ",", ";", ":", "!", "?", ")", "]", "}", ">", "quot", "'"}
\* (mutant) only the last character is stripped
_strip_trailing_punct_Once(s) ==
    IF s = <<>> THEN <<>>
    ELSE IF IsTrail(s[Len(s)]) THEN Slice(s, 1, Len(s) - 1) ELSE s
_strip_trailing_punct(s) ==
    IF s = <<>> THEN <<>> ELSE
    Slice(s, 1, CHOOSE q \in 0..Len(s) :
                    /\ q = 0 \/ ~IsTrail(s[q])
                    /\ \A j \in (q + 1)..Len(s) : IsTrail(s[j]))

_collapse_ws(s) ==
    IF s = <<>> THEN <<>> ELSE
    Strip(ReSub(s, [p \in 1..Len(s) |->
        IF IsSpace(s[p]) THEN [end |-> p + SpaceRun(s, p) - 1, rep |-> <<" ">>]
        ELSE NoMatch]))

\* \b([A-Za-z]) sep (\d{2,4})\b -> \1\2, where sep is \s*-\s* (dash) or \s+
SingleLetterDigitsSub(s, dash) ==
    LET Digits2to4(p, r, n) ==
            IF n >= 2 /\ n <= 4 /\ WordBoundary(s, r + n)
            THEN [end |-> r + n - 1, rep |-> <<s[p]>> \o Slice(s, r, r + n - 1)]
            ELSE NoMatch
        AfterSep(p, r) == Digits2to4(p, r, DigitRun(s, r))
        AtSep(p, k1, q) ==
            IF dash
            THEN IF q <= Len(s) /\ s[q] = "-"
                 THEN AfterSep(p, q + 1 + SpaceRun(s, q + 1)) ELSE NoMatch
            ELSE IF k1 >= 1 THEN AfterSep(p, q) ELSE NoMatch
        AfterLetter(p, k1) == AtSep(p, k1, p + 1 + k1)
    IN IF s = <<>> THEN <<>> ELSE
       ReSub(s, [p \in 1..Len(s) |->
           IF ~(IsAlpha(s[p]) /\ WordBoundary(s, p)) THEN NoMatch
           ELSE AfterLetter(p, SpaceRun(s, p + 1))])

normalize_display(raw) ==
    IF raw = <<>> THEN <<>> ELSE
    SingleLetterDigitsSub(
        SingleLetterDigitsSub(
            _collapse_ws(_strip_trailing_punct(_normalize_dashes(Strip(_nfkc(raw))))),
            TRUE),
        FALSE)

\* (mutant) no character is removed
KeepLowerAlnum_KeepAll(s) == s
\* re.sub(r"[^a-z0-9]+", "", s)
KeepLowerAlnum(s) == IF s = <<>> THEN <<>> ELSE SelectSeq(s, LAMBDA c : c \in LowerSet \/ IsDigit(c))

canonical_key(raw) ==
    IF raw = <<>> THEN <<>> ELSE
    KeepLowerAlnum(Lower(BWSub(BWPhraseSub(normalize_display(raw), W_bw), W_bw)))

\* alias_map is a function from alias keys to AliasRecord
AliasRecord(ck, dn) == [canonical_key |-> ck, display_name |-> dn]

has_alias(alias_map, raw) ==
    LET Known(k) == k # <<>> /\ k \in DOMAIN alias_map
    IN Known(canonical_key(raw))

\* (canonical_key, display_name)
normalize(alias_map, raw) ==
    LET Resolve(display, key) ==
            IF key = <<>> THEN <<<<>>, display>>
            ELSE IF key \in DOMAIN alias_map
                 THEN <<alias_map[key].canonical_key, alias_map[key].display_name>>
                 ELSE <<key, display>>
        Keyed(display) == Resolve(display, canonical_key(display))
    IN Keyed(normalize_display(raw))

\* One row of the alias CSV as csv.DictReader yields it (absent cells are
\* empty): alias, canonical, display_name, canonical_key.
\* The loop body of _load_aliases: the map after the row.
LoadAliasRow(alias_map, row) ==
    LET Put(alias_key, ck, display_name) ==
            [k \in DOMAIN alias_map \cup {alias_key} |->
                IF k = alias_key THEN AliasRecord(ck, display_name) ELSE alias_map[k]]
        WithKey(alias_key, display_name, ck0) ==
            Put(alias_key, IF ck0 = <<>> THEN alias_key ELSE ck0, display_name)
        WithDisplay(alias_key, override, display_name) ==
            WithKey(alias_key, display_name,
                    canonical_key(IF override # <<>> THEN override ELSE display_name))
        WithAliasKey(alias, canonical, display, override, alias_key) ==
            IF alias_key = <<>> THEN alias_map
            ELSE WithDisplay(alias_key, override,
                    normalize_display(IF display # <<>> THEN display
                                      ELSE IF canonical # <<>> THEN canonical
                                      ELSE alias))
        Cells(alias, canonical, display, override) ==
            IF alias = <<>> \/ alias[1] = "#" THEN alias_map
            ELSE WithAliasKey(alias, canonical, display, override, canonical_key(alias))
    IN Cells(Strip(row.alias), Strip(row.canonical), Strip(row.display_name),
             Strip(row.canonical_key))

RECURSIVE LoadAliasRows(_, _)
LoadAliasRows(alias_map, rows) ==
    IF rows = <<>> THEN alias_map
    ELSE LoadAliasRows(LoadAliasRow(alias_map, Head(rows)), Tail(rows))

\* file: [exists |-> whether os.path.exists(path), readable |-> whether
\* open(path, "r") succeeds, utf8 |-> whether the bytes decode as utf-8,
\* rows |-> the CSV rows]
EmptyAliasMap == <<>>
_load_aliases(file) ==
    IF ~file.exists THEN EmptyAliasMap ELSE LoadAliasRows(EmptyAliasMap, file.rows)
\* open() or the reader's decoding raises: nothing in _load_aliases or in its
\* callers catches it
_load_aliases_raises(file) == file.exists /\ ~(file.readable /\ file.utf8)

(***************************************************************************)
(* extract_mentions_v2.py: patterns and helpers                            *)
(***************************************************************************)
BRANDS == <<
    <<"K","E","F">>,
    <<"E","L","A","C">>,
    <<"P","O","L","K">>,
    <<"S","V","S">>,
    <<"K","L","I","P","S","C","H">>,
    <<"J","B","L">>,
    <<"S","O","N","Y">>,
    <<"Y","A","M","A","H","A">>,
    <<"D","E","N","O","N">>,
    <<"M","A","R","A","N","T","Z">>,
    <<"O","N","K","Y","O">>,
    <<"P","I","O","N","E","E","R">>,
    <<"W","H","A","R","F","E","D","A","L","E">>,
    <<"F","O","C","A","L">>,
    <<"D","A","L","I">>,
    <<"P","A","R","A","D","I","G","M">>,
    <<"E","M","O","T","I","V","A">>,
    <<"F","L","U","A","N","C","E">>,
    <<"M","I","C","C","A">>,
    <<"E","D","I","F","I","E","R">>,
    <<"M","O","N","O","P","R","I","C","E">>,
    <<"B","&","W">>,
    <<"B","W">>,
    <<"B","O","W","E","R","S">>,
    <<"W","I","L","K","I","N","S">>,
    <<"Q"," ","A","C","O","U","S","T","I","C","S">>,
    <<"Q","A","C","O","U","S","T","I","C","S">>,
    <<"J","A","M","O">>,
    <<"N","E","U","M","I">>,
    <<"R","S","L">>,
    <<"H","S","U">>,
    <<"A","S","C","E","N","D">>,
    <<"A","R">>,
    <<"A","U","D","I","O","E","N","G","I","N","E">>,
    <<"C","A","M","B","R","I","D","G","E">>,
    <<"C","A","N","T","O","N">>,
    <<"C","E","R","W","I","N">>,
    <<"C","H","A","N","E">>,
    <<"D","Y","N","A","C","O">>,
    <<"D","Y","N","A","U","D","I","O">>,
    <<"G","E","N","E","L","E","C">>,
    <<"H","A","R","B","E","T","H">>,
    <<"I","N","F","I","N","I","T","Y">>,
    <<"M","A","G","N","E","P","A","N">>,
    <<"M","I","S","S","I","O","N">>,
    <<"M","O","N","I","T","O","R"," ","A","U","D","I","O">>,
    <<"N","H","T">>,
    <<"P","S","B">>,
    <<"R","E","V","E","L">>,
    <<"S","A","L","K">>,
    <<"S","E","N","N","H","E","I","S","E","R">>,
    <<"T","A","N","N","O","Y">>,
    <<"T","E","A","C">>,
    <<"T","R","I","A","N","G","L","E">>,
    <<"V","A","N","D","E","R","S","T","E","E","N">>,
    <<"V","I","E","N","N","A">>,
    <<"Y","A","M","A","H","A">> >>

SPEAKER_CONTEXT == <<
    <<"s","p","e","a","k","e","r">>,
    <<"s","p","e","a","k","e","r","s">>,
    <<"b","o","o","k","s","h","e","l","f">>,
    <<"b","o","o","k","s","e","l","f">>,
    <<"m","o","n","i","t","o","r">>,
    <<"m","o","n","i","t","o","r","s">>,
    <<"p","a","i","r">>,
    <<"p","a","i","r","s">>,
    <<"s","t","a","n","d","s">>,
    <<"n","e","a","r","f","i","e","l","d">>,
    <<"p","a","s","s","i","v","e">>,
    <<"a","m","p">>,
    <<"r","e","c","e","i","v","e","r">>,
    <<"i","n","t","e","g","r","a","t","e","d">>,
    <<"s","u","b">>,
    <<"s","u","b","w","o","o","f","e","r">>,
    <<"s","t","e","r","e","o">>,
    <<"2",".","0">>,
    <<"2",".","1">> >>

BAD_TOKENS == {
    <<"2",".","0">>,
    <<"2",".","1">>,
    <<"5",".","1">>,
    <<"7",".","1">>,
    <<"3",".","5">>,
    <<"6",".","5">>,
    <<"8",".","0">>,
    <<"1","0",".","0">>,
    <<"1","2",".","0">>,
    <<"1","4",".","0">>,
    <<"1","0","8","0">>,
    <<"1","4","4","0">>,
    <<"4","K">>,
    <<"8","K">> }

W_QACOUSTICS == <<"Q","A","C","O","U","S","T","I","C","S">>
W_Q_ACOUSTICS == <<"Q"," ","A","C","O","U","S","T","I","C","S">>
W_BW == <<"B","W">>
W_BOWERS == <<"B","O","W","E","R","S">>
W_WILKINS == <<"W","I","L","K","I","N","S">>

\* the bounds of the quantifiers of MODEL_TOKEN_RE and of looks_like_real_model
TokenRepeatMax == 20
TokenLenMin == 2
TokenLenMax == 25

Min(a, b) == IF a < b THEN a ELSE b
Max(a, b) == IF a > b THEN a ELSE b

\* the class [A-Z0-9\.\-] under re.IGNORECASE
IsTokenChar(c) == IsAlnum(c) \/ c \in {".", "-"}
TokenCharRun(s, p) ==
    IF p > Len(s) THEN 0
    ELSE (CHOOSE q \in p..(Len(s) + 1) :
            /\ q = Len(s) + 1 \/ ~IsTokenChar(s[q])
            /\ \A j \in p..(q - 1) : IsTokenChar(s[j])) - p

\* (?<!\w) and (?!\w) at the gap before position p
NotAfterWord(s, p) == p = 1 \/ ~IsWord(s[p - 1])
NotBeforeWord(s, p) == p > Len(s) \/ ~IsWord(s[p])

\* MODEL_TOKEN_RE (?!\w) matched at q: the index of the token's last
\* character, or 0.  [A-Z]? [A-Z0-9] [..]{1,20} \d [..]{0,20}: the engine
\* prefers the optional letter taken, then the longest first run, then the
\* longest second run; <<x, z, w>> are those three lengths.
ModelTokenEnd(s, q) ==
    LET better(a, b) ==
            \/ a[1] > b[1]
            \/ a[1] = b[1] /\ a[2] > b[2]
            \/ a[1] = b[1] /\ a[2] = b[2] /\ a[3] >= b[3]
        End(t) == q + t[1] + t[2] + t[3] + 1
        Pick(cands) ==
            IF cands = {} THEN 0
            ELSE End(CHOOSE a \in cands : \A b \in cands : better(a, b))
        xs(R) == {x \in 0..1 : x + 3 <= R /\ (x = 1 => IsAlpha(s[q])) /\ IsAlnum(s[q + x])}
        zs(R, x) == {z \in 1..Min(TokenRepeatMax, R - x - 2) : IsDigit(s[q + x + z + 1])}
        ws(R, x, z) == {w \in 0..Min(TokenRepeatMax, R - x - z - 2) :
                           NotBeforeWord(s, q + x + z + w + 2)}
        Shapes(R) ==
            UNION {UNION {{<<x, z, w>> : w \in ws(R, x, z)} : z \in zs(R, x)} : x \in xs(R)}
    IN Pick(Shapes(TokenCharRun(s, q)))

\* BRAND_RE matched at p (re.IGNORECASE): the length of the brand, or 0.
\* No catalog brand is a prefix of another, so the order of the alternation
\* (longest first) never decides between two brands at one position.
BrandsByInitial ==
    LET ByInitial(B) == [c \in UpperSet |-> {i \in DOMAIN B : B[i][1] = c}]
    IN ByInitial(BRANDS)
BrandLenAt(s, p) ==
    LET Longest(B, hits) ==
            IF hits = {} THEN 0
            ELSE Len(B[CHOOSE i \in hits : \A j \in hits : Len(B[i]) >= Len(B[j])])
        Hits(B, c) ==
            IF c \in UpperSet
            THEN {i \in BrandsByInitial[c] : LitAt(s, p, B[i], TRUE)} ELSE {}
        Among(B) == Longest(B, Hits(B, IF p <= Len(s) THEN UpperC(s[p]) ELSE ""))
    IN Among(BRANDS)

\* a match: [from, to] the span of group(0), [bfrom, bto] group(1) of
\* MENTION_RE_1, [mfrom, mto] the model token
NoSpan == [from |-> 0, to |-> 0, bfrom |-> 0, bto |-> 0, mfrom |-> 0, mto |-> 0]

\* MENTION_RE_1 matched at p
Mention1At(s, p) ==
    LET Span(bl, q, e) ==
            IF e > 0
            THEN [from |-> p, to |-> e, bfrom |-> p, bto |-> p + bl - 1,
                  mfrom |-> q, mto |-> e]
            ELSE NoSpan
        Token(bl, q) ==
            IF q > p + bl THEN Span(bl, q, ModelTokenEnd(s, q)) ELSE NoSpan
        Brand(bl) ==
            IF bl > 0 THEN Token(bl, p + bl + SpaceRun(s, p + bl)) ELSE NoSpan
    IN IF NotAfterWord(s, p) THEN Brand(BrandLenAt(s, p)) ELSE NoSpan

\* STANDALONE_RE matched at p
StandaloneAt(s, p) ==
    LET Span(e) ==
            IF e > 0
            THEN [from |-> p, to |-> e, bfrom |-> 0, bto |-> 0, mfrom |-> p, mto |-> e]
            ELSE NoSpan
    IN IF NotAfterWord(s, p) THEN Span(ModelTokenEnd(s, p)) ELSE NoSpan

\* finditer: the matches from left to right, none overlapping an earlier one
RECURSIVE FindIterRange(_, _, _, _, _)
FindIterRange(s, pass1, p, lo, hi) ==
    LET Leaf(m) ==
            IF m.to > 0 THEN [out |-> <<m>>, next |-> m.to + 1]
            ELSE [out |-> <<>>, next |-> p + 1]
        Join(l, r) == [out |-> l.out \o r.out, next |-> r.next]
        Right(mid, l) == Join(l, FindIterRange(s, pass1, l.next, mid + 1, hi))
        Halves(mid) == Right(mid, FindIterRange(s, pass1, p, lo, mid))
    IN IF p > hi THEN [out |-> <<>>, next |-> p]
       ELSE IF lo = hi
       THEN Leaf(IF pass1 THEN Mention1At(s, p) ELSE StandaloneAt(s, p))
       ELSE Halves((lo + hi) \div 2)
FindIterFrom(s, pass1, p) ==
    IF p > Len(s) THEN <<>> ELSE FindIterRange(s, pass1, p, p, Len(s)).out
MENTION_RE_1_finditer(s) == FindIterFrom(s, TRUE, 1)
STANDALONE_RE_finditer(s) == FindIterFrom(s, FALSE, 1)

\* str.replace(old, new)
Replace(s, old, new) ==
    IF s = <<>> THEN <<>> ELSE
    ReSub(s, [p \in 1..Len(s) |->
        IF LitAt(s, p, old, FALSE) THEN [end |-> p + Len(old) - 1, rep |-> new]
        ELSE NoMatch])

norm_space(s) == _collapse_ws(s)

norm_brand(b0) ==
    LET Fold(b) == IF b \in {W_BW, W_BOWERS, W_WILKINS} THEN W_BandW ELSE b
    IN IF b0 = <<>> THEN <<>>
       ELSE Fold(Replace(Upper(norm_space(b0)), W_QACOUSTICS, W_Q_ACOUSTICS))

\* the context words as their positions in SPEAKER_CONTEXT
extract_context_words(text) ==
    LET t == Lower(text)
    IN {i \in DOMAIN SPEAKER_CONTEXT : Contains(t, SPEAKER_CONTEXT[i])}

looks_like_real_model(token) ==
    LET Real(t) ==
            /\ t # <<>>
            /\ t \notin BAD_TOKENS
            /\ Len(t) >= TokenLenMin
            /\ Len(t) <= TokenLenMax
            /\ ~(\A i \in 1..Len(t) : IsDigit(t[i]) \/ t[i] \in {".", "-"})
    IN Real(Strip(Upper(token)))

\* collections.Counter: the pairs <<key, count>> in insertion order
CounterGet(c, k) ==
    IF \E i \in DOMAIN c : c[i][1] = k
    THEN c[CHOOSE i \in DOMAIN c : c[i][1] = k][2] ELSE 0
CounterInc(c, k) ==
    IF \E i \in DOMAIN c : c[i][1] = k
    THEN [i \in DOMAIN c |-> IF c[i][1] = k THEN <<k, c[i][2] + 1>> ELSE c[i]]
    ELSE Append(c, <<k, 1>>)
\* most_common(1)[0][0]: heapq.nlargest(1, ...) is max(), which keeps the
\* first of the items with the highest count
MostCommon1(c) ==
    c[CHOOSE i \in DOMAIN c :
        /\ \A j \in DOMAIN c : c[j][2] <= c[i][2]
        /\ \A j \in 1..(i - 1) : c[j][2] < c[i][2]][1]

NoBrand == <<>>
\* (mutant) the thread's brands are preferred to the document's
pick_brand_from_thread_ThreadFirst(thread_brands, doc_brands) ==
    IF thread_brands # <<>> THEN MostCommon1(thread_brands)
    ELSE IF doc_brands # <<>> THEN MostCommon1(doc_brands)
    ELSE NoBrand
pick_brand_from_thread(thread_brands, doc_brands) ==
    IF doc_brands # <<>> THEN MostCommon1(doc_brands)
    ELSE IF thread_brands # <<>> THEN MostCommon1(thread_brands)
    ELSE NoBrand

\* s.split(" ", 1)[0] if " " in s else dflt
FirstWordOr(s, dflt) ==
    IF \E i \in DOMAIN s : s[i] = " "
    THEN Slice(s, 1, (CHOOSE i \in DOMAIN s : s[i] = " " /\ \A j \in 1..(i - 1) : s[j] # " ") - 1)
    ELSE dflt

(***************************************************************************)
(* extract_mentions_v2.py: main                                            *)
(***************************************************************************)
W_brand_token == "brand_token"
W_alias_token == "alias_token"
W_inferred_brand == "inferred_brand"
\* the confidences 1.0, 0.95 and 0.65, in hundredths
ConfBrandToken == 100
ConfAliasToken == 95
\* (mutant) an inferred brand is given the confidence of an alias
ConfInferredBrand_AsAlias == ConfAliasToken
ConfInferredBrand == 65

\* One mention row.  Of the columns copied through from the document,
\* doc_kind, doc_id, thread_id and score are kept; subreddit, created_utc,
\* source_file and run_id are copied the same way and are not modelled.
MentionRow(ck, cm, brand, model_token, found_text, method, confidence, doc) ==
    [canonical_key |-> ck, canonical_model |-> cm, brand |-> brand,
     model_token |-> model_token, found_text |-> found_text,
     method |-> method, confidence |-> confidence,
     doc_kind |-> doc.doc_kind, doc_id |-> doc.doc_id,
     thread_id |-> doc.thread_id, score |-> doc.score]

\* group(1) and group(2) of a match
BrandOf(text, m) == Slice(text, m.bfrom, m.bto)
ModelOf(text, m) == Slice(text, m.mfrom, m.mto)

\* a Counter after counting norm_brand(group(1)) of every Pass-1 match
RECURSIVE CountBrands(_, _, _)
CountBrands(counter, text, ms) ==
    IF ms = <<>> THEN counter
    ELSE CountBrands(CounterInc(counter, norm_brand(BrandOf(text, Head(ms)))), text, Tail(ms))

\* defaultdict(Counter), as a function of every thread id: an absent key is
\* the empty Counter, which is what .get(tid, Counter()) returns for it
ThreadCounts(tbc, tid) == IF tid \in DOMAIN tbc THEN tbc[tid] ELSE <<>>

\* the row of one Pass-1 match
Pass1Row(am, doc, text, m) ==
    LET Row(model_tok, brand_tok, n) ==
            MentionRow(n[1], n[2], FirstWordOr(n[2], brand_tok), model_tok,
                       Slice(text, m.from, m.to), W_brand_token, ConfBrandToken, doc)
        Combined(model_tok, brand_tok) ==
            Row(model_tok, brand_tok,
                normalize(am, Strip(brand_tok \o <<" ">> \o model_tok)))
    IN Combined(Upper(normalize_display(ModelOf(text, m))), norm_brand(BrandOf(text, m)))

\* token_norm of one Pass-2 match
TokenNorm(text, m) == Upper(normalize_display(Strip(ModelOf(text, m))))

\* (mutant) inference is attempted without a context word
ContextGate_Open(speaker_ctx) == TRUE
\* whether inference may be attempted: `if not speaker_ctx: continue`
ContextGate(speaker_ctx) == speaker_ctx # {}

\* the row of a token that maps via aliases
AliasTokenRow(am, doc, token_norm) ==
    LET Row(n, brand_guess) ==
            MentionRow(n[1], n[2],
                       IF brand_guess # <<>> THEN norm_brand(brand_guess) ELSE <<>>,
                       token_norm, token_norm, W_alias_token, ConfAliasToken, doc)
        Guess(n) == Row(n, FirstWordOr(n[2], <<>>))
    IN Guess(normalize(am, token_norm))
\* the rows (none or one) of a token whose brand is inferred
InferredBrandRows(am, doc, token_norm, thread_counts, doc_brands) ==
    LET Row(inferred_brand, n) ==
            MentionRow(n[1], n[2], FirstWordOr(n[2], inferred_brand), token_norm,
                       token_norm, W_inferred_brand, ConfInferredBrand, doc)
        With(inferred_brand) ==
            IF inferred_brand = NoBrand THEN <<>>
            ELSE << Row(inferred_brand,
                        normalize(am, Strip(inferred_brand \o <<" ">> \o token_norm))) >>
    IN With(pick_brand_from_thread(thread_counts, doc_brands))

\* (mutant) the context gate is applied before the alias lookup
Pass2Rows_GateFirst(am, doc, token_norm, speaker_ctx, thread_counts, doc_brands) ==
    IF ~ContextGate(speaker_ctx) THEN <<>>
    ELSE IF has_alias(am, token_norm) THEN << AliasTokenRow(am, doc, token_norm) >>
    ELSE InferredBrandRows(am, doc, token_norm, thread_counts, doc_brands)
\* the rows (none or one) of one surviving Pass-2 token
Pass2Rows(am, doc, token_norm, speaker_ctx, thread_counts, doc_brands) ==
    IF has_alias(am, token_norm) THEN << AliasTokenRow(am, doc, token_norm) >>
    ELSE IF ~ContextGate(speaker_ctx) THEN <<>>
    ELSE InferredBrandRows(am, doc, token_norm, thread_counts, doc_brands)

\* (mutant) the rows of the later matches come first
RECURSIVE Pass1Rows_Reversed(_, _, _, _)
Pass1Rows_Reversed(am, doc, text, ms) ==
    IF ms = <<>> THEN <<>>
    ELSE Pass1Rows_Reversed(am, doc, text, Tail(ms)) \o <<Pass1Row(am, doc, text, Head(ms))>>
RECURSIVE Pass1Rows(_, _, _, _)
Pass1Rows(am, doc, text, ms) ==
    IF ms = <<>> THEN <<>>
    ELSE <<Pass1Row(am, doc, text, Head(ms))>> \o Pass1Rows(am, doc, text, Tail(ms))

\* (mutant) a token is counted only when it gives a row
RECURSIVE Pass2Loop_CountResolved(_, _, _, _, _, _, _, _)
Pass2Loop_CountResolved(acc, am, doc, text, ms, speaker_ctx, thread_counts, doc_brands) ==
    LET Count(token_norm, got) ==
            [rows |-> acc.rows \o got,
             counter |-> IF got = <<>> THEN acc.counter
                         ELSE CounterInc(acc.counter, token_norm)]
        Step(token_norm) ==
            IF ~looks_like_real_model(token_norm) THEN acc
            ELSE Count(token_norm, Pass2Rows(am, doc, token_norm, speaker_ctx,
                                             thread_counts, doc_brands))
    IN IF ms = <<>> THEN acc
       ELSE Pass2Loop_CountResolved(Step(TokenNorm(text, Head(ms))), am, doc, text,
                                    Tail(ms), speaker_ctx, thread_counts, doc_brands)
\* the Pass-2 loop over the matches ms: acc = [rows, counter] grows per token
RECURSIVE Pass2Loop(_, _, _, _, _, _, _, _)
Pass2Loop(acc, am, doc, text, ms, speaker_ctx, thread_counts, doc_brands) ==
    LET Step(token_norm) ==
            IF ~looks_like_real_model(token_norm) THEN acc
            ELSE [rows |-> acc.rows \o Pass2Rows(am, doc, token_norm, speaker_ctx,
                                                 thread_counts, doc_brands),
                  counter |-> CounterInc(acc.counter, token_norm)]
    IN IF ms = <<>> THEN acc
       ELSE Pass2Loop(Step(TokenNorm(text, Head(ms))), am, doc, text, Tail(ms),
                      speaker_ctx, thread_counts, doc_brands)

\* _best_display_name over the displays vals (a sequence, one per row)
BlankStr(v) == Strip(v) = <<>>
CountOf(vals, v) == Cardinality({i \in DOMAIN vals : vals[i] = v})
_best_display_name(vals0) ==
    LET \* key (-len(s), s)
        before(a, b) == Len(a) > Len(b) \/ (Len(a) = Len(b) /\ StrLess(a, b))
        First(candidates) ==
            CHOOSE a \in candidates : \A b \in candidates \ {a} : before(a, b)
        Best(vals, best_count) ==
            First({v \in Range(vals) : CountOf(vals, v) = best_count})
        Counted(vals) ==
            IF vals = <<>> THEN <<>>
            ELSE Best(vals, CHOOSE c \in {CountOf(vals, v) : v \in Range(vals)} :
                                \A v \in Range(vals) : CountOf(vals, v) <= c)
    IN Counted(SelectSeq(vals0, LAMBDA v : ~BlankStr(v)))

\* df["canonical_model"] = df["canonical_key"].map(display_map)
ApplyDisplayMap(rs) ==
    LET Display(same) ==
            _best_display_name([k \in DOMAIN same |-> same[k].canonical_model])
    IN [i \in DOMAIN rs |->
          [rs[i] EXCEPT !.canonical_model =
              Display(SelectSeq(rs, LAMBDA r : r.canonical_key = rs[i].canonical_key))]]

\* Counter.most_common(): by count, highest first, equal counts in insertion order
RECURSIVE MostCommon(_)
MostCommon(c) ==
    IF c = <<>> THEN <<>>
    ELSE LET i == CHOOSE i \in DOMAIN c :
                     /\ \A j \in DOMAIN c : c[j][2] <= c[i][2]
                     /\ \A j \in 1..(i - 1) : c[j][2] < c[i][2]
         IN <<c[i]>> \o MostCommon(SubSeq(c, 1, i - 1) \o SubSeq(c, i + 1, Len(c)))

(***************************************************************************)
(* Numbers.  A weight is a whole number of units of 1/200000: the table of *)
(* logarithms is in units of 1/10000 and the post multiplier is 27/20.  A  *)
(* mean is a fraction <<numerator, denominator>> in lowest terms.          *)
(***************************************************************************)
Abs(n) == IF n < 0 THEN 0 - n ELSE n
Gcd(n, d) ==
    CHOOSE g \in 1..d : /\ Abs(n) % g = 0 /\ d % g = 0
                        /\ \A h \in (g + 1)..d : ~(Abs(n) % h = 0 /\ d % h = 0)
Rat(n, d) == LET g == Gcd(n, d) IN <<n \div g, d \div g>>
RatAdd(a, b) == Rat(a[1] * b[2] + b[1] * a[2], a[2] * b[2])
RatTimes(a, k) == Rat(a[1] * k, a[2])
RatOver(a, k) == Rat(a[1], a[2] * k)
\* (mutant) the first value stands for the sum
SumInts_FirstOnly(xs) == IF xs = <<>> THEN 0 ELSE Head(xs)
RECURSIVE SumInts(_)
SumInts(xs) == IF xs = <<>> THEN 0 ELSE Head(xs) + SumInts(Tail(xs))
RECURSIVE SumRats(_)
SumRats(xs) == IF xs = <<>> THEN <<0, 1>> ELSE RatAdd(Head(xs), SumRats(Tail(xs)))
MaxOf(S) == CHOOSE x \in S : \A y \in S : y <= x

(***************************************************************************)
(* score_votes_v2.py                                                       *)
(***************************************************************************)
\* math.log1p(n) for n = 0..10, in units of 1/10000
Log1pTable == <<0, 6931, 10986, 13863, 16094, 17918, 19459, 20794, 21972, 23026, 23979>>
log1p(n) == Log1pTable[n + 1]
\* base = 1.0, in the units of the table
BaseVote == 10000
\* kind_mult: 1.35 and 1.0, in twentieths
KindMultPost == 27
KindMultOther == 20

\* (mutant) the boost is added whatever the sign of the score
vote_weight_Unsigned(score, doc_kind) ==
    (BaseVote + log1p(Abs(score))) * (IF doc_kind = "post" THEN KindMultPost ELSE KindMultOther)
vote_weight(score, doc_kind) ==
    LET boost == IF score < 0 THEN 0 - log1p(Abs(score)) ELSE log1p(Abs(score))
        kind_mult == IF doc_kind = "post" THEN KindMultPost ELSE KindMultOther
    IN (BaseVote + boost) * kind_mult

\* re.sub(r"\s+", " ", (s or "").strip())
score_votes_collapse_ws(s0) ==
    LET Sub(s) ==
            ReSub(s, [p \in 1..Len(s) |->
                IF IsSpace(s[p]) THEN [end |-> p + SpaceRun(s, p) - 1, rep |-> <<" ">>]
                ELSE NoMatch])
    IN IF s0 = <<>> THEN <<>> ELSE Sub(Strip(s0))

\* TRAILING_PUNCT_RE.sub("", cm)
TRAILING_PUNCT == {".", ",", ";", ":", "!", "?", ")", "]", "}"}
TrailingPunctSub(cm) ==
    IF cm = <<>> THEN <<>> ELSE
    Slice(cm, 1, CHOOSE q \in 0..Len(cm) :
                    /\ q = 0 \/ cm[q] \notin TRAILING_PUNCT
                    /\ \A j \in (q + 1)..Len(cm) : cm[j] \in TRAILING_PUNCT)

\* the index of the last " " of s, or 0: s.split(" ") has parts[-1] after it
LastSpace(s) ==
    CHOOSE q \in 0..Len(s) :
        /\ q = 0 \/ s[q] = " "
        /\ \A j \in (q + 1)..Len(s) : s[j] # " "

\* re.sub(r"[^A-Z0-9]+", "", s) and re.sub(r"[^A-Z0-9& ]+", "", s)
KeepUpperAlnum(s) ==
    IF s = <<>> THEN <<>> ELSE SelectSeq(s, LAMBDA c : c \in UpperSet \/ IsDigit(c))
KeepUpperAlnumAmpSpace(s) ==
    IF s = <<>> THEN <<>>
    ELSE SelectSeq(s, LAMBDA c : c \in UpperSet \/ IsDigit(c) \/ c \in {"&", " "})

canonical_key_from_model(canonical_model) ==
    LET Fold(brand) == IF brand \in {W_BW, W_BOWERS} THEN W_BandW ELSE brand
        Brand(parts) ==
            Strip(KeepUpperAlnumAmpSpace(
                Fold(Replace(Upper(score_votes_collapse_ws(parts)),
                             W_QACOUSTICS, W_Q_ACOUSTICS))))
        Split(cm, ls) ==
            IF ls = 0 THEN KeepUpperAlnum(cm)
            ELSE Strip(Brand(Slice(cm, 1, ls - 1)) \o <<" ">>
                       \o KeepUpperAlnum(Upper(Slice(cm, ls + 1, Len(cm)))))
        Key(cm) == Split(cm, LastSpace(cm))
    IN Key(TrailingPunctSub(Upper(score_votes_collapse_ws(canonical_model))))

clean_display_model(canonical_model) ==
    TrailingPunctSub(Upper(score_votes_collapse_ws(canonical_model)))

\* the key of pick_best_display: (has_hyphen, punct, len(s), s), smaller first
DisplayScore(s) ==
    LET model_tok == Slice(s, LastSpace(s) + 1, Len(s))
    IN [has_hyphen |-> IF "-" \in Range(model_tok) THEN 0 ELSE 1,
        punct |-> Cardinality({i \in DOMAIN s :
                                 ~(s[i] \in UpperSet \/ IsDigit(s[i]) \/ s[i] = " ")}),
        len |-> Len(s)]
DisplayBefore(a, b) ==
    LET Less(x, y) ==
            \/ x.has_hyphen < y.has_hyphen
            \/ x.has_hyphen = y.has_hyphen /\ x.punct < y.punct
            \/ x.has_hyphen = y.has_hyphen /\ x.punct = y.punct /\ x.len < y.len
            \/ /\ x.has_hyphen = y.has_hyphen /\ x.punct = y.punct /\ x.len = y.len
               /\ StrLess(a, b)
    IN Less(DisplayScore(a), DisplayScore(b))

\* series is the sequence of the group's cleaned displays
pick_best_display(series) ==
    LET top == MaxOf({CountOf(series, v) : v \in Range(series)})
        cands == {v \in Range(series) : CountOf(series, v) = top}
    IN CHOOSE a \in cands : \A b \in cands \ {a} : DisplayBefore(a, b)

\* (mutant) ascending=True
SortValuesAsc(S, col) ==
    {f \in [1..Cardinality(S) -> S] :
        /\ \A x \in S : \E i \in DOMAIN f : f[i] = x
        /\ \A i, j \in DOMAIN f : i < j => f[i][col] <= f[j][col]}
\* the orders sort_values(col, ascending=False) can leave the rows S in: the
\* default sort is not stable, so rows with equal values come in any order
SortValuesDesc(S, col) ==
    {f \in [1..Cardinality(S) -> S] :
        /\ \A x \in S : \E i \in DOMAIN f : f[i] = x
        /\ \A i, j \in DOMAIN f : i < j => f[i][col] >= f[j][col]}

\* main, lines 156-177: the rows of the groupby, one per canonical_key (the
\* variants column, a debugging aid, is left out)
ScoreVotesAgg(m0) ==
    LET Row(g, vote_ws, scores) ==
            [canonical_key |-> g[1].key,
             canonical_model |-> pick_best_display([i \in DOMAIN g |-> g[i].display]),
             mentions |-> Len(g),
             unique_threads |-> Cardinality({g[i].thread_id : i \in DOMAIN g}),
             vote_score |-> SumInts(vote_ws),
             avg_vote |-> Rat(SumInts(vote_ws), Len(g)),
             avg_doc_score |-> Rat(SumInts(scores), Len(g))]
        Group(g) == Row(g, [i \in DOMAIN g |-> g[i].vote_w],
                           [i \in DOMAIN g |-> g[i].score])
        Rows(m) ==
            IF m = <<>> THEN {}
            ELSE {Group(SelectSeq(m, LAMBDA r : r.key = k))
                  : k \in {m[i].key : i \in DOMAIN m}}
    IN Rows([i \in DOMAIN m0 |->
                [display |-> clean_display_model(m0[i].canonical_model),
                 key |-> canonical_key_from_model(m0[i].canonical_model),
                 vote_w |-> vote_weight(m0[i].score, m0[i].doc_kind),
                 thread_id |-> m0[i].thread_id,
                 score |-> m0[i].score]])

(***************************************************************************)
(* rank_models_v2.py                                                       *)
(***************************************************************************)
\* 0.75 and 0.10, in the units of a weight
ThreadCoef == 150000
MentionCoef == 20000

\* s is the sequence of the group's displays
_pick_display(s) ==
    LET vals == SelectSeq(s, LAMBDA v : ~BlankStr(v))
        top_n == MaxOf({CountOf(s, v) : v \in Range(s)})
        cands == {v \in Range(s) : CountOf(s, v) = top_n}
        before(a, b) == Len(a) > Len(b) \/ (Len(a) = Len(b) /\ StrLess(a, b))
    IN IF vals = <<>> THEN <<>>
       ELSE CHOOSE a \in cands : \A b \in cands \ {a} : before(a, b)

\* unique_threads=("unique_threads", "max")
MergeUniqueThreads(xs) == MaxOf(Range(xs))

\* (mutant) the plain mean of the merged rows' means
MergeAvg_Unweighted(avgs, ns) == RatOver(SumRats(avgs), Len(avgs))
\* the sum of avg * mentions over the merged rows, over the denominator
\* mentions.replace(0, 1)
MergeAvg(avgs, ns) ==
    RatOver(SumRats([i \in DOMAIN avgs |-> RatTimes(avgs[i], ns[i])]),
            IF SumInts(ns) = 0 THEN 1 ELSE SumInts(ns))

\* main, lines 51-93: the rows of the groupby with their score_v2
RankAgg(am, votes) ==
    LET Row(g, ns, vote_score, unique_threads) ==
            [canonical_key |-> g[1].canonical_key,
             canonical_model |-> _pick_display([i \in DOMAIN g |-> g[i].canonical_model]),
             vote_score |-> vote_score,
             mentions |-> SumInts(ns),
             unique_threads |-> unique_threads,
             avg_vote |-> MergeAvg([i \in DOMAIN g |-> g[i].avg_vote], ns),
             avg_doc_score |-> MergeAvg([i \in DOMAIN g |-> g[i].avg_doc_score], ns),
             score_v2 |-> vote_score + ThreadCoef * unique_threads
                            + MentionCoef * SumInts(ns)]
        Group(g) ==
            Row(g, [i \in DOMAIN g |-> g[i].mentions],
                SumInts([i \in DOMAIN g |-> g[i].vote_score]),
                MergeUniqueThreads([i \in DOMAIN g |-> g[i].unique_threads]))
        Rows(df) ==
            IF df = <<>> THEN {}
            ELSE {Group(SelectSeq(df, LAMBDA r : r.canonical_key = k))
                  : k \in {df[i].canonical_key : i \in DOMAIN df}}
        Keyed(vote, n) ==
            [vote EXCEPT !.canonical_key = n[1], !.canonical_model = n[2]]
    IN Rows([i \in DOMAIN votes |->
                Keyed(votes[i], normalize(am, votes[i].canonical_model))])
\* agg["rank"] = agg.index + 1
WithRank(order) ==
    [i \in DOMAIN order |->
        [rank |-> i,
         canonical_model |-> order[i].canonical_model,
         canonical_key |-> order[i].canonical_key,
         score_v2 |-> order[i].score_v2,
         vote_score |-> order[i].vote_score,
         unique_threads |-> order[i].unique_threads,
         mentions |-> order[i].mentions,
         avg_vote |-> order[i].avg_vote,
         avg_doc_score |-> order[i].avg_doc_score]]

(***************************************************************************)
(* The inputs of a run                                                     *)
(***************************************************************************)
\* 'Picked up a pair of KEF Q150 today, love them'
Text_ScenarioA ==
    <<"P","i","c","k","e","d"," ","u","p"," ","a"," ","p","a","i","r"," ",
      "o","f"," ","K","E","F"," ","Q","1","5","0"," ","t","o","d","a","y",
      ","," ","l","o","v","e"," ","t","h","e","m">>
\* 'anyone tried the RP-600M bookshelf speakers?'
Text_ScenarioC ==
    <<"a","n","y","o","n","e"," ","t","r","i","e","d"," ","t","h","e"," ",
      "R","P","-","6","0","0","M"," ","b","o","o","k","s","h","e","l","f",
      " ","s","p","e","a","k","e","r","s","?">>
\* 'Klipsch R-51M or KEF Q150 pair'
Text_Tie ==
    <<"K","l","i","p","s","c","h"," ","R","-","5","1","M"," ","o","r"," ",
      "K","E","F"," ","Q","1","5","0"," ","p","a","i","r">>
\* 'Klipsch RP-600M, KEF Q-150, KEF LS50 amp'
Text_Majority ==
    <<"K","l","i","p","s","c","h"," ","R","P","-","6","0","0","M",","," ",
      "K","E","F"," ","Q","-","1","5","0",","," ","K","E","F"," ","L","S",
      "5","0"," ","a","m","p">>
\* 'Klipsch R-51M and RP-600M'
Text_NoContext ==
    <<"K","l","i","p","s","c","h"," ","R","-","5","1","M"," ","a","n","d",
      " ","R","P","-","6","0","0","M">>
\* 'Q Acoustics 3020i'
Text_QAcoustics ==
    <<"Q"," ","A","c","o","u","s","t","i","c","s"," ","3","0","2","0","i">>
\* '  '
Text_Blank ==
    <<" "," ">>

\* the documents a batch is drawn from: text, kind and engagement score
DocPool == {
    [text |-> Text_ScenarioA, doc_kind |-> "post", score |-> 10],
    [text |-> Text_ScenarioC, doc_kind |-> "comment", score |-> 3],
    [text |-> Text_Tie, doc_kind |-> "post", score |-> 3],
    [text |-> Text_Majority, doc_kind |-> "comment", score |-> -2],
    [text |-> Text_NoContext, doc_kind |-> "comment", score |-> 10],
    [text |-> Text_QAcoustics, doc_kind |-> "comment", score |-> 3],
    [text |-> Text_Blank, doc_kind |-> "comment", score |-> 0] }

\* the longest batch
MaxDocs == 2
\* the thread ids
Threads == {"t1", "t2"}

\* the rows of reddit_docs.csv: doc_id is the row's position, and the first
\* row is of thread t1 (thread ids are interchangeable)
Batches ==
    UNION {{b \in [1..n -> DocPool \X Threads] : b[1][2] = "t1"} : n \in 1..MaxDocs}
DocsOf(b) ==
    [i \in DOMAIN b |-> [text |-> b[i][1].text, doc_kind |-> b[i][1].doc_kind,
                         score |-> b[i][1].score, doc_id |-> i, thread_id |-> b[i][2]]]

W_RP600M == <<"R","P","6","0","0","M">>
W_Klipsch_RP600M == <<"K","l","i","p","s","c","h"," ","R","P","6","0","0","M">>
AliasRow(a, c, d, k) == [alias |-> a, canonical |-> c, display_name |-> d, canonical_key |-> k]
W_rp600m_klipsch == <<"r","p","6","0","0","m","-","k","l","i","p","s","c","h">>
AliasFile(e, r, u, rs) == [exists |-> e, readable |-> r, utf8 |-> u, rows |-> rs]
\* model_aliases.csv: absent; one row for RP600M; the same row with a
\* canonical_key override; a file without an alias column; a file that cannot
\* be opened; a file that is not utf-8
AliasFiles == {
    AliasFile(FALSE, FALSE, FALSE, <<>>),
    AliasFile(TRUE, TRUE, TRUE, <<AliasRow(W_RP600M, W_Klipsch_RP600M, <<>>, <<>>)>>),
    AliasFile(TRUE, TRUE, TRUE,
              <<AliasRow(W_RP600M, W_Klipsch_RP600M, <<>>, W_rp600m_klipsch)>>),
    AliasFile(TRUE, TRUE, TRUE, <<AliasRow(<<>>, W_Klipsch_RP600M, <<>>, <<>>)>>),
    AliasFile(TRUE, FALSE, TRUE, <<>>),
    AliasFile(TRUE, TRUE, FALSE, <<>>) }

\* the columns of reddit_docs.csv that main() reads
DocColumns == {"text", "thread_id", "doc_kind", "doc_id", "score"}
\* the headers a reddit_docs.csv comes with
ColumnSets == {DocColumns, DocColumns \ {"text"}, DocColumns \ {"thread_id"},
               DocColumns \ {"text", "thread_id"}}
\* lines 122-125: the column main() dies for, or "" when both are there
MissingColumn_TextOnly(cols) == IF "text" \notin cols THEN "text" ELSE ""
MissingColumn(cols) ==
    IF "text" \notin cols THEN "text"
    ELSE IF "thread_id" \notin cols THEN "thread_id"
    ELSE ""
\* the message die() prints to stderr for the column
MissingColumnMessage(col) ==
    IF col = "text" THEN "reddit_docs.csv missing 'text' column."
    ELSE "reddit_docs.csv missing 'thread_id' column."

(***************************************************************************)
(* The extraction run                                                      *)
(***************************************************************************)
VARIABLES
    columns,              \* the header of reddit_docs.csv
    docs,                 \* reddit_docs.csv
    alias_file,           \* model_aliases.csv
    pc,                   \* where main() is
    alias_map,            \* normalizer.alias_map
    idx,                  \* the row the current loop is at
    thread_brand_counts,  \* thread id -> Counter of brands
    rows,                 \* the mention rows so far
    candidate_counter,    \* Counter of standalone tokens
    mentions_csv,         \* mentions_v2.csv as written
    cand_csv,             \* model_candidates.csv as written
    votes_csv,            \* votes_v2.csv as written
    ranked_csv,           \* ranked_models_v2.csv as written
    parts,                \* the batches the mentions were scored in
    exit,                 \* the exit code and the stderr of the stage that failed
    norm_in,              \* the strings handed to the normalizer
    norm_out,             \* what the normalizer returned for them
    step,                 \* the step run_pipeline's loop is at (0: no request)
    full_log,             \* the steps that have returned, with their exit codes
    response              \* what run_pipeline has answered

extract_vars == <<columns, docs, alias_map, idx, thread_brand_counts, rows,
                  candidate_counter, cand_csv>>
reduce_vars == <<votes_csv, ranked_csv, parts>>
norm_vars == <<norm_in, norm_out>>
runner_vars == <<step, full_log, response>>
vars == <<columns, docs, alias_file, pc, alias_map, idx, thread_brand_counts, rows,
          candidate_counter, mentions_csv, cand_csv, votes_csv, ranked_csv, parts,
          exit, norm_in, norm_out, step, full_log, response>>

NotWritten == <<"not written">>
\* a DataFrame without rows and without columns: to_csv writes a file of one
\* line break, and read_csv raises EmptyDataError on such a file
NoColumns == <<>>
\* no stage has failed
NoExit == [code |-> 0, stderr |-> ""]
\* die(msg): the message on stderr, SystemExit(1)
Died(msg) == [code |-> 1, stderr |-> msg]
\* an exception nobody catches: the traceback on stderr, exit code 1
Raised(exc) == [code |-> 1, stderr |-> exc]
\* run_pipeline has not answered
NoResponse == [status |-> 0, ok |-> FALSE, failed_step |-> ""]

Init ==
    /\ columns \in ColumnSets
    /\ docs \in {DocsOf(b) : b \in Batches}
    /\ alias_file \in AliasFiles
    /\ pc = "start"
    /\ alias_map = EmptyAliasMap
    /\ idx = 1
    /\ thread_brand_counts = [t \in Threads |-> <<>>]
    /\ rows = <<>>
    /\ candidate_counter = <<>>
    /\ mentions_csv = NotWritten
    /\ cand_csv = NotWritten
    /\ votes_csv = NotWritten
    /\ ranked_csv = NotWritten
    /\ parts = <<>>
    /\ exit = NoExit
    /\ norm_in = <<>>
    /\ norm_out = <<>>
    /\ step = 0
    /\ full_log = <<>>
    /\ response = NoResponse

\* main, lines 121-125: the table is read and its header checked
ReadDocs ==
    /\ pc = "start"
    /\ IF MissingColumn(columns) # ""
       THEN /\ pc' = "failed"
            /\ exit' = Died(MissingColumnMessage(MissingColumn(columns)))
       ELSE /\ pc' = "aliases"
            /\ UNCHANGED exit
    /\ UNCHANGED <<columns, docs, alias_file, alias_map, idx, thread_brand_counts, rows,
                   candidate_counter, mentions_csv, cand_csv>>
    /\ UNCHANGED <<reduce_vars, norm_vars, runner_vars>>

\* main, line 127: ModelNormalizer(ALIASES_CSV)
LoadAliases ==
    /\ pc = "aliases"
    /\ IF _load_aliases_raises(alias_file)
       THEN /\ pc' = "failed"
            /\ exit' = Raised(IF alias_file.readable THEN "UnicodeDecodeError"
                              ELSE "PermissionError")
            /\ UNCHANGED alias_map
       ELSE /\ alias_map' = _load_aliases(alias_file)
            /\ pc' = "context"
            /\ UNCHANGED exit
    /\ idx' = 1
    /\ UNCHANGED <<columns, docs, alias_file, thread_brand_counts, rows,
                   candidate_counter, mentions_csv, cand_csv>>
    /\ UNCHANGED <<reduce_vars, norm_vars, runner_vars>>

\* (mutant) loop 2 runs while loop 1 is still counting
ContextBuilt_Early == pc \in {"context", "extract"}
\* the first loop has gone through every row
ContextBuilt == pc = "extract"

\* one iteration of loop 1: the thread's Counter takes the row's Pass-1 brands
BuildContext ==
    /\ pc = "context"
    /\ idx <= Len(docs)
    /\ LET r == docs[idx]
           tid == r.thread_id
           text == prepare_text_for_matching(r.text)
       IN thread_brand_counts' =
            IF Strip(r.text) = <<>> \/ tid = "" THEN thread_brand_counts
            ELSE [thread_brand_counts EXCEPT ![tid] =
                    CountBrands(@, text, MENTION_RE_1_finditer(text))]
    /\ idx' = idx + 1
    /\ UNCHANGED <<columns, docs, alias_file, pc, alias_map, rows, candidate_counter,
                   mentions_csv, cand_csv>>
    /\ UNCHANGED <<reduce_vars, norm_vars, runner_vars, exit>>

\* loop 1 is exhausted: loop 2 starts
StartExtract ==
    /\ pc = "context"
    /\ idx > Len(docs)
    /\ pc' = "extract"
    /\ idx' = 1
    /\ UNCHANGED <<columns, docs, alias_file, alias_map, thread_brand_counts, rows,
                   candidate_counter, mentions_csv, cand_csv>>
    /\ UNCHANGED <<reduce_vars, norm_vars, runner_vars, exit>>

\* one iteration of loop 2: Pass 1 then Pass 2 over the row's text
ExtractDoc ==
    /\ ContextBuilt
    /\ idx <= Len(docs)
    /\ LET r == docs[idx]
           text == prepare_text_for_matching(r.text)
           ms1 == MENTION_RE_1_finditer(text)
           doc_brands == CountBrands(<<>>, text, ms1)
           speaker_ctx == extract_context_words(r.text)
           thread_counts == ThreadCounts(thread_brand_counts, r.thread_id)
           acc == Pass2Loop([rows |-> rows \o Pass1Rows(alias_map, r, text, ms1),
                             counter |-> candidate_counter],
                            alias_map, r, text, STANDALONE_RE_finditer(text),
                            speaker_ctx, thread_counts, doc_brands)
       IN IF Strip(r.text) = <<>>
          THEN UNCHANGED <<rows, candidate_counter>>
          ELSE /\ rows' = acc.rows
               /\ candidate_counter' = acc.counter
    /\ idx' = idx + 1
    /\ UNCHANGED <<columns, docs, alias_file, pc, alias_map, thread_brand_counts,
                   mentions_csv, cand_csv>>
    /\ UNCHANGED <<reduce_vars, norm_vars, runner_vars, exit>>

\* after loop 2: the candidates and the mentions are written
Finish ==
    /\ pc = "extract"
    /\ idx > Len(docs)
    /\ cand_csv' = MostCommon(candidate_counter)
    /\ mentions_csv' = IF rows = <<>> THEN NoColumns ELSE ApplyDisplayMap(rows)
    /\ pc' = "done"
    /\ UNCHANGED <<columns, docs, alias_file, alias_map, idx, thread_brand_counts, rows,
                   candidate_counter>>
    /\ UNCHANGED <<reduce_vars, norm_vars, runner_vars, exit>>

Next == ReadDocs \/ LoadAliases \/ BuildContext \/ StartExtract \/ ExtractDoc \/ Finish

Spec == Init /\ [][Next]_vars

(***************************************************************************)
(* The reducers' run: score_votes_v2.py, then rank_models_v2.py            *)
(***************************************************************************)
\* 'KEF LS50 META', 'KEF LS50META', 'ELAC B5.2', 'ELAC B51'
Model_LS50_META ==
    <<"K","E","F"," ","L","S","5","0"," ","M","E","T","A">>
Model_LS50META ==
    <<"K","E","F"," ","L","S","5","0","M","E","T","A">>
Model_B5_2 ==
    <<"E","L","A","C"," ","B","5",".","2">>
Model_B51 ==
    <<"E","L","A","C"," ","B","5","1">>

\* the columns of mentions_v2.csv that score_votes_v2.py reads
ScoredMention(cm, tid, score, kind) ==
    [canonical_model |-> cm, thread_id |-> tid, score |-> score, doc_kind |-> kind]
\* the rows a mentions table is drawn from
MentionPool == {
    ScoredMention(Model_LS50_META, "t1", 3, "comment"),
    ScoredMention(Model_LS50_META, "t2", 0, "post"),
    ScoredMention(Model_LS50META, "t2", 10, "post"),
    ScoredMention(Model_B5_2, "t1", 3, "comment"),
    ScoredMention(Model_B51, "t2", 3, "comment"),
    ScoredMention(Model_B51, "t1", -2, "comment") }
\* the longest mentions table
MaxMentions == 3
MentionTables == UNION {[1..n -> MentionPool] : n \in 1..MaxMentions}

\* the rows of m at the positions A, in order
SubTable(m, A) ==
    LET F[i \in 0..Len(m)] ==
            IF i = 0 THEN <<>>
            ELSE IF i \in A THEN Append(F[i - 1], m[i]) ELSE F[i - 1]
    IN F[Len(m)]

\* the state after an extraction run that wrote the table
InitReduce ==
    /\ mentions_csv \in MentionTables
    /\ alias_file \in AliasFiles
    /\ pc = "done"
    /\ columns = DocColumns
    /\ docs = <<>>
    /\ alias_map = EmptyAliasMap
    /\ idx = 1
    /\ thread_brand_counts = [t \in Threads |-> <<>>]
    /\ rows = <<>>
    /\ candidate_counter = <<>>
    /\ cand_csv = <<>>
    /\ votes_csv = NotWritten
    /\ ranked_csv = NotWritten
    /\ parts = <<>>
    /\ exit = NoExit
    /\ norm_in = <<>>
    /\ norm_out = <<>>
    /\ step = 0
    /\ full_log = <<>>
    /\ response = NoResponse

\* score_votes_v2.py main over the whole table
ScoreVotes ==
    /\ pc = "done"
    /\ IF mentions_csv = NoColumns
       THEN \* line 144: pd.read_csv raises
            /\ pc' = "failed"
            /\ exit' = Raised("EmptyDataError")
            /\ UNCHANGED <<votes_csv, parts>>
       ELSE /\ \E order \in SortValuesDesc(ScoreVotesAgg(mentions_csv), "vote_score") :
                  votes_csv' = order
            /\ parts' = <<DOMAIN mentions_csv>>
            /\ pc' = "scored"
            /\ UNCHANGED exit
    /\ UNCHANGED <<alias_file, mentions_csv, ranked_csv>>
    /\ UNCHANGED <<extract_vars, norm_vars, runner_vars>>

\* score_votes_v2.py main over the table cut in two batches (the rows at A,
\* the other rows), one run each, the second votes file appended to the first
ScoreVotesParts ==
    /\ pc = "done"
    /\ \E A \in SUBSET DOMAIN mentions_csv :
          /\ 1 \in A
          /\ A # DOMAIN mentions_csv
          /\ \E oa \in SortValuesDesc(ScoreVotesAgg(SubTable(mentions_csv, A)), "vote_score"),
                ob \in SortValuesDesc(ScoreVotesAgg(SubTable(mentions_csv,
                                        DOMAIN mentions_csv \ A)), "vote_score") :
                votes_csv' = oa \o ob
          /\ parts' = <<A, DOMAIN mentions_csv \ A>>
    /\ pc' = "scored"
    /\ UNCHANGED <<alias_file, mentions_csv, ranked_csv>>
    /\ UNCHANGED <<extract_vars, norm_vars, runner_vars, exit>>

\* rank_models_v2.py main
RankModels ==
    /\ pc = "scored"
    /\ IF _load_aliases_raises(alias_file)
       THEN \* line 35: ModelNormalizer(ALIASES_CSV) raises
            /\ pc' = "failed"
            /\ exit' = Raised(IF alias_file.readable THEN "UnicodeDecodeError"
                              ELSE "PermissionError")
            /\ UNCHANGED ranked_csv
       ELSE /\ \E order \in SortValuesDesc(RankAgg(_load_aliases(alias_file), votes_csv),
                                           "score_v2") :
                  ranked_csv' = WithRank(order)
            /\ pc' = "ranked"
            /\ UNCHANGED exit
    /\ UNCHANGED <<alias_file, mentions_csv, votes_csv, parts>>
    /\ UNCHANGED <<extract_vars, norm_vars, runner_vars>>

NextReduce == ScoreVotes \/ ScoreVotesParts \/ RankModels

SpecReduce == InitReduce /\ [][NextReduce]_vars

(***************************************************************************)
(* The pipeline: extract_mentions_v2.py, score_votes_v2.py and             *)
(* rank_models_v2.py in a row, each started when the one before it has     *)
(* exited with code 0                                                      *)
(***************************************************************************)
\* the longest batch that is taken through the three stages
MaxPipelineDocs == 1

InitPipeline == Init /\ Len(docs) <= MaxPipelineDocs

\* run_pipeline scores the mentions table in one run of score_votes_v2.py
NextPipeline ==
    \/ ReadDocs \/ LoadAliases \/ BuildContext \/ StartExtract \/ ExtractDoc \/ Finish
    \/ ScoreVotes
    \/ RankModels

SpecPipeline == InitPipeline /\ [][NextPipeline]_vars

(***************************************************************************)
(* webapp/app.py: run_pipeline, a request for the v2 scripts (the default) *)
(***************************************************************************)
\* lines 179-188: the labels of the steps, in the order of the loop
steps == <<"parse_reddit_json.py --all", "extract_mentions_v2.py",
           "score_votes_v2.py", "rank_models_v2.py">>
\* the exit codes of parse_reddit_json.py: 0, or 1 when it dies
ParseExitCodes == {0, 1}
\* lines 200-205 and 207-212
FailureResponse(label) == [status |-> 500, ok |-> FALSE, failed_step |-> label]
OkResponse == [status |-> 200, ok |-> TRUE, failed_step |-> ""]
\* (mutant) the exit code of a step is not looked at
StepFailed_Never(res) == FALSE
\* line 199
StepFailed(res) == res.exit_code # 0
\* the pc at which the script of step k has exited
Terminal(k) ==
    IF k = 2 THEN {"done", "failed"}
    ELSE IF k = 3 THEN {"scored", "failed"}
    ELSE {"ranked", "failed"}

\* lines 197-205: the body of the loop once run_cmd has returned res
LoopBody(label, res) ==
    /\ full_log' = Append(full_log, [label |-> label, exit_code |-> res.exit_code])
    /\ IF StepFailed(res)
       THEN /\ response' = FailureResponse(label)
            /\ UNCHANGED step
       ELSE /\ step' = step + 1
            /\ UNCHANGED response

InitRunner ==
    /\ columns \in ColumnSets
    /\ docs \in {DocsOf(b) : b \in Batches}
    /\ Len(docs) <= MaxPipelineDocs
    /\ alias_file \in AliasFiles
    /\ pc = "request"
    /\ alias_map = EmptyAliasMap
    /\ idx = 1
    /\ thread_brand_counts = [t \in Threads |-> <<>>]
    /\ rows = <<>>
    /\ candidate_counter = <<>>
    /\ mentions_csv = NotWritten
    /\ cand_csv = NotWritten
    /\ votes_csv = NotWritten
    /\ ranked_csv = NotWritten
    /\ parts = <<>>
    /\ exit = NoExit
    /\ norm_in = <<>>
    /\ norm_out = <<>>
    /\ step = 1
    /\ full_log = <<>>
    /\ response = NoResponse

\* the first step: parse_reddit_json.py runs and exits, and when the loop goes
\* on, run_cmd starts the extraction
RunParse ==
    /\ pc = "request"
    /\ step = 1
    /\ response = NoResponse
    /\ \E code \in ParseExitCodes :
          /\ LoopBody(steps[1], [exit_code |-> code])
          /\ exit' = IF code = 0 THEN NoExit ELSE Died("parse_reddit_json.py")
          /\ pc' = IF StepFailed([exit_code |-> code]) THEN "failed" ELSE "start"
    /\ UNCHANGED <<alias_file, mentions_csv>>
    /\ UNCHANGED <<extract_vars, reduce_vars, norm_vars>>

\* run_cmd returns for the script of a later step, which has exited
ReturnStage ==
    /\ response = NoResponse
    /\ step \in 2..Len(steps)
    /\ Len(full_log) = step - 1
    /\ pc \in Terminal(step)
    /\ LoopBody(steps[step], [exit_code |-> exit.code])
    /\ UNCHANGED <<alias_file, pc, mentions_csv, exit>>
    /\ UNCHANGED <<extract_vars, reduce_vars, norm_vars>>

\* lines 207-212: the loop has gone through every step
Respond ==
    /\ response = NoResponse
    /\ step > Len(steps)
    /\ response' = OkResponse
    /\ UNCHANGED <<alias_file, pc, mentions_csv, exit, step, full_log>>
    /\ UNCHANGED <<extract_vars, reduce_vars, norm_vars>>

\* the script of a step takes its steps while run_cmd waits for it
NextRunner ==
    \/ RunParse
    \/ ReturnStage
    \/ Respond
    \/ (step = 2 /\ ReadDocs)
    \/ (step = 2 /\ LoadAliases)
    \/ (step = 2 /\ BuildContext)
    \/ (step = 2 /\ StartExtract)
    \/ (step = 2 /\ ExtractDoc)
    \/ (step = 2 /\ Finish)
    \/ (step = 3 /\ ScoreVotes)
    \/ (step = 4 /\ RankModels)

SpecRunner == InitRunner /\ [][NextRunner]_vars

(***************************************************************************)
(* The normalizer on its own: normalize_display and canonical_key applied  *)
(* to the spellings of one name                                            *)
(***************************************************************************)
\* a series letter, 2 to 4 digits, and what may follow them
SeriesLetters == {"Q", "R"}
SeriesDigits == {<<"5","1">>, <<"1","5","0">>, <<"1","5","0","0">>}
SeriesSuffixes == {<<>>, <<"M">>}
\* nothing, or 'KEF ' before the letter
SeriesPrefixes == {<<>>, BRANDS[1] \o <<" ">>}
\* fused, with a hyphen, with a space
SeriesSpellings(pre, l, d, suf) ==
    << pre \o <<l>> \o d \o suf,
       pre \o <<l, "-">> \o d \o suf,
       pre \o <<l, " ">> \o d \o suf >>

W_Bowers_amp_Wilkins ==
    <<"B","o","w","e","r","s"," ","&"," ","W","i","l","k","i","n","s">>
W_Bowers_and_Wilkins ==
    <<"B","o","w","e","r","s"," ","a","n","d"," ","W","i","l","k","i","n","s">>
BWModels == {<<"6","0","6">>, <<"D","M","6","0","1">>}
\* the fused form 'bw606' first, then the spellings of the brand before the
\* model token
BWSpellings(m) ==
    << W_bw \o m,
       W_Bowers_amp_Wilkins \o <<" ">> \o m,
       W_Bowers_and_Wilkins \o <<" ">> \o m,
       <<"B","&","W"," ">> \o m,
       <<"B"," ","&"," ","W"," ">> \o m,
       <<"B"," ","a","n","d"," ","W"," ">> \o m,
       <<"B","W"," ">> \o m >>

\* the characters and the length of the strings normalize_display is tried on
NormAlphabet == {"Q", "1", " ", "-", ".", "u2013"}
MaxNormLen == 5
NormStrings == UNION {[1..n -> NormAlphabet] : n \in 0..MaxNormLen}

NormInput(kind, xs) == [kind |-> kind, xs |-> xs]
NormInputs ==
    {NormInput("series", SeriesSpellings(pre, l, d, suf)) :
        pre \in SeriesPrefixes, l \in SeriesLetters, d \in SeriesDigits,
        suf \in SeriesSuffixes}
    \cup {NormInput("bw", BWSpellings(m)) : m \in BWModels}
    \cup {NormInput("string", <<x>>) : x \in NormStrings}

\* extract_mentions_v2.py main, lines 148-199: the canonical_key of the
\* Pass-1 rows of a document with the text x, without aliases
ExplicitKeys(x) ==
    LET Keys(rs) == [k \in DOMAIN rs |-> rs[k].canonical_key]
        Rows(text) ==
            Pass1Rows(EmptyAliasMap,
                      [text |-> x, doc_kind |-> "comment", doc_id |-> 1,
                       thread_id |-> "t1", score |-> 0],
                      text, MENTION_RE_1_finditer(text))
    IN IF Strip(x) = <<>> THEN <<>> ELSE Keys(Rows(prepare_text_for_matching(x)))

\* what the normalizer and the extractor give for one spelling
NormResult(x) ==
    [display |-> normalize_display(x),
     again |-> normalize_display(normalize_display(x)),
     key |-> canonical_key(x),
     explicit |-> ExplicitKeys(x)]

InitNormalize ==
    /\ norm_in \in NormInputs
    /\ norm_out = <<>>
    /\ step = 0
    /\ full_log = <<>>
    /\ response = NoResponse
    /\ pc = "call"
    /\ columns = DocColumns
    /\ docs = <<>>
    /\ alias_file = AliasFile(FALSE, FALSE, FALSE, <<>>)
    /\ alias_map = EmptyAliasMap
    /\ idx = 1
    /\ thread_brand_counts = [t \in Threads |-> <<>>]
    /\ rows = <<>>
    /\ candidate_counter = <<>>
    /\ mentions_csv = NotWritten
    /\ cand_csv = NotWritten
    /\ votes_csv = NotWritten
    /\ ranked_csv = NotWritten
    /\ parts = <<>>
    /\ exit = NoExit

\* the calls return
Normalize ==
    /\ pc = "call"
    /\ norm_out' = [i \in DOMAIN norm_in.xs |-> NormResult(norm_in.xs[i])]
    /\ pc' = "returned"
    /\ UNCHANGED <<norm_in, alias_file, mentions_csv, exit>>
    /\ UNCHANGED <<extract_vars, reduce_vars, runner_vars>>

NextNormalize == Normalize

SpecNormalize == InitNormalize /\ [][NextNormalize]_vars

(***************************************************************************)
(* The extraction run over the documents of one discussion, in every order *)
(***************************************************************************)
\* the number of documents in such a batch
MaxReorderDocs == 3
\* a post that names KEF, a comment that names Klipsch and a comment that
\* names no brand
ReorderPool == {d \in DocPool : d.text \in {Text_ScenarioA, Text_NoContext, Text_ScenarioC}}
ReorderBatches ==
    {b \in [1..MaxReorderDocs -> ReorderPool \X Threads] : b[1][2] = "t1"}

InitReorder ==
    /\ columns = DocColumns
    /\ docs \in {DocsOf(b) : b \in ReorderBatches}
    /\ alias_file \in AliasFiles
    /\ pc = "start"
    /\ alias_map = EmptyAliasMap
    /\ idx = 1
    /\ thread_brand_counts = [t \in Threads |-> <<>>]
    /\ rows = <<>>
    /\ candidate_counter = <<>>
    /\ mentions_csv = NotWritten
    /\ cand_csv = NotWritten
    /\ votes_csv = NotWritten
    /\ ranked_csv = NotWritten
    /\ parts = <<>>
    /\ exit = NoExit
    /\ norm_in = <<>>
    /\ norm_out = <<>>
    /\ step = 0
    /\ full_log = <<>>
    /\ response = NoResponse

SpecReorder == InitReorder /\ [][Next]_vars

(***************************************************************************)
(* What a batch holds, read from its documents                             *)
(***************************************************************************)
PoolTexts == {d.text : d \in DocPool}

\* the brands of a text's explicit brand+model matches, in text order
ExplicitBrandsOf(raw) ==
    LET text == prepare_text_for_matching(raw)
        ms == MENTION_RE_1_finditer(text)
    IN IF Strip(raw) = <<>> THEN <<>>
       ELSE [i \in DOMAIN ms |-> norm_brand(BrandOf(text, ms[i]))]
ExplicitBrands == {<<raw, ExplicitBrandsOf(raw)>> : raw \in PoolTexts}

\* the standalone tokens of a text that pass the validity filter, in text order
SurvivingTokensOf(raw) ==
    LET text == prepare_text_for_matching(raw)
        ms == STANDALONE_RE_finditer(text)
        toks == [i \in DOMAIN ms |-> TokenNorm(text, ms[i])]
    IN IF Strip(raw) = <<>> THEN <<>>
       ELSE SelectSeq(toks, looks_like_real_model)
SurvivingTokens == {<<raw, SurvivingTokensOf(raw)>> : raw \in PoolTexts}

\* the texts that hold a speaker-context word
ContextTexts == {raw \in PoolTexts : extract_context_words(raw) # {}}

Lookup(table, raw) == (CHOOSE p \in table : p[1] = raw)[2]
DocBrands(d) == Lookup(ExplicitBrands, docs[d].text)
DocTokens(d) == Lookup(SurvivingTokens, docs[d].text)
DocHasContext(d) == docs[d].text \in ContextTexts

\* the explicit brands of thread t in the first n documents, in batch order
RECURSIVE BrandsUpTo(_, _)
BrandsUpTo(t, n) ==
    IF n = 0 THEN <<>>
    ELSE BrandsUpTo(t, n - 1) \o (IF docs[n].thread_id = t THEN DocBrands(n) ELSE <<>>)
ThreadBrands(t) == BrandsUpTo(t, Len(docs))

Occ(seq, x) == Cardinality({i \in DOMAIN seq : seq[i] = x})
MostFrequent(seq) == {b \in Range(seq) : \A c \in Range(seq) : Occ(seq, c) <= Occ(seq, b)}
FirstSeen(seq, S) == seq[CHOOSE i \in DOMAIN seq : seq[i] \in S /\ \A j \in 1..(i - 1) : seq[j] \notin S]
\* the catalog, as the brands are counted
CatalogBrands == [i \in DOMAIN BRANDS |-> norm_brand(BRANDS[i])]
CatalogFirst(S) == FirstSeen(CatalogBrands, S)

\* the aliases of the loaded file, and the tokens they cover
AliasMaps == {<<f, _load_aliases(f)>> : f \in AliasFiles}
LoadedAliases == Lookup(AliasMaps, alias_file)
TokenHasAlias(T) == has_alias(LoadedAliases, T)

\* the rows a run has appended for the standalone occurrences of token T in
\* document d, and the rows of the written file at the same positions
Pass2RowsOf(d, T) ==
    {i \in DOMAIN rows : /\ rows[i].doc_id = d
                         /\ rows[i].model_token = T
                         /\ rows[i].method # W_brand_token}
\* the counter inference uses for document d: its own brands, else the thread's
UsedBrands(d) == IF DocBrands(d) # <<>> THEN DocBrands(d) ELSE ThreadBrands(docs[d].thread_id)
\* a standalone token of d that is left to inference, and passes the gate
Inferable(d, T) ==
    /\ T \in Range(DocTokens(d))
    /\ ~TokenHasAlias(T)
    /\ DocHasContext(d)
\* row i carries the identity that brand b and token T give
InferredFrom(i, b, T) ==
    LET n == normalize(LoadedAliases, Strip(b \o <<" ">> \o T))
    IN /\ rows[i].method = W_inferred_brand
       /\ rows[i].canonical_key = n[1]
       /\ rows[i].canonical_model = n[2]
       /\ rows[i].brand = FirstWordOr(n[2], b)
Written == pc = "done"

W_KEF == <<"K","E","F">>
W_KEF_Q150 == <<"K","E","F"," ","Q","1","5","0">>
IsScenarioA ==
    /\ Len(docs) = 1
    /\ docs[1].text = Text_ScenarioA
    /\ docs[1].doc_kind = "post"
    /\ docs[1].score = 10
    /\ ~alias_file.exists

\* C1: a run with no aliases over the one post 'Picked up a pair of KEF Q150
\* today, love them' (score 10) writes exactly one mention row, with brand KEF,
\* display 'KEF Q150', method brand_token and confidence 1.0.
C1_ScenarioA_OneMention ==
    (Written /\ IsScenarioA) =>
        /\ Len(mentions_csv) = 1
        /\ mentions_csv[1].brand = W_KEF
        /\ mentions_csv[1].canonical_model = W_KEF_Q150
        /\ mentions_csv[1].method = W_brand_token
        /\ mentions_csv[1].confidence = ConfBrandToken

\* the written rows that share row i's canonical key, as displays
DisplaysOfKey(i) ==
    LET same == SelectSeq(rows, LAMBDA r : r.canonical_key = rows[i].canonical_key)
    IN [k \in DOMAIN same |-> same[k].canonical_model]
\* w is the display the batch settles on among the displays vals: a most
\* frequent one, the longest of those, the lexicographically smallest of those
SettledDisplay(w, vals) ==
    /\ w \in MostFrequent(vals)
    /\ \A v \in MostFrequent(vals) \ {w} :
          Len(w) > Len(v) \/ (Len(w) = Len(v) /\ StrLess(w, v))
\* row i, as appended and as written, is an alias resolution
AliasResolved(i) ==
    /\ rows[i].method = W_alias_token
    /\ rows[i].confidence = 95
    /\ mentions_csv[i].method = W_alias_token
    /\ mentions_csv[i].confidence = 95

C3_ContextGating ==
    \A d \in DOMAIN docs : \A T \in Range(DocTokens(d)) :
        (~TokenHasAlias(T) /\ ~DocHasContext(d)) =>
            /\ Pass2RowsOf(d, T) = {}
            /\ Written =>
                 \A i \in DOMAIN mentions_csv :
                    (mentions_csv[i].doc_id = d /\ mentions_csv[i].model_token = T)
                        => mentions_csv[i].method = W_brand_token
\* a gated token that a brand of its document or thread would have resolved
C3_Witness ==
    /\ Written
    /\ \E d \in DOMAIN docs : \E T \in Range(DocTokens(d)) :
          /\ ~TokenHasAlias(T)
          /\ ~DocHasContext(d)
          /\ UsedBrands(d) # <<>>

\* the method and the confidence of a row go together
ConfidencePartition(r) ==
    /\ r.confidence \in {100, 95, 65}
    /\ r.method \in {W_brand_token, W_alias_token, W_inferred_brand}
    /\ r.method = W_brand_token <=> r.confidence = 100
    /\ r.method = W_alias_token <=> r.confidence = 95
    /\ r.method = W_inferred_brand <=> r.confidence = 65
\* C4: every mention row has a confidence among 1.0, 0.95 and 0.65, and
\* brand_token goes with 1.0, alias_token with 0.95, inferred_brand with 0.65,
\* each way round.
C4_ConfidencePartition ==
    /\ \A i \in DOMAIN rows : ConfidencePartition(rows[i])
    /\ Written => \A i \in DOMAIN mentions_csv : ConfidencePartition(mentions_csv[i])
\* a written table with a row of each method
C4_Witness ==
    /\ Written
    /\ \A m \in {W_brand_token, W_alias_token, W_inferred_brand} :
          \E i \in DOMAIN mentions_csv : mentions_csv[i].method = m

\* C5: a standalone token with no alias match, in a document that passes the
\* context gate, is given the most frequent brand of the document's own
\* explicit matches when there is one, else the most frequent brand of the
\* explicit matches of the thread's documents; with no explicit brand in
\* either, it gives no mention row.
C5_InferencePreference ==
    Written =>
        \A d \in DOMAIN docs : \A T \in Range(DocTokens(d)) :
            Inferable(d, T) =>
                LET got == Pass2RowsOf(d, T)
                    used == UsedBrands(d)
                IN IF used = <<>> THEN got = {}
                   ELSE /\ Cardinality(got) = Occ(DocTokens(d), T)
                        /\ \A i \in got :
                              \E b \in MostFrequent(used) : InferredFrom(i, b, T)
\* a token resolved from its document's brands where the thread's most
\* frequent brands are not the document's
C5_Witness ==
    /\ Written
    /\ \E d \in DOMAIN docs : \E T \in Range(DocTokens(d)) :
          /\ Inferable(d, T)
          /\ Pass2RowsOf(d, T) # {}
          /\ DocBrands(d) # <<>>
          /\ MostFrequent(DocBrands(d)) # MostFrequent(ThreadBrands(docs[d].thread_id))

\* C6: when several brands are tied for the highest count in the counter used
\* for inference, the inferred brand is the tied brand that comes first in the
\* brand catalog.
C6_TieBreakCatalogOrder ==
    Written =>
        \A d \in DOMAIN docs : \A T \in Range(DocTokens(d)) :
            (Inferable(d, T) /\ Cardinality(MostFrequent(UsedBrands(d))) >= 2) =>
                \A i \in Pass2RowsOf(d, T) :
                    InferredFrom(i, CatalogFirst(MostFrequent(UsedBrands(d))), T)

\* every thread's Counter holds the explicit brands of all the thread's documents
ThreadCountsComplete ==
    \A t \in Threads :
        /\ \A b \in Range(ThreadBrands(t)) :
              CounterGet(thread_brand_counts[t], b) = Occ(ThreadBrands(t), b)
        /\ \A k \in DOMAIN thread_brand_counts[t] :
              thread_brand_counts[t][k][1] \in Range(ThreadBrands(t))
\* a token of a document with no explicit brand in it or before it in its
\* thread is resolved from the brands of the thread's later documents
ForwardResolved ==
    Written =>
        \A d \in DOMAIN docs : \A T \in Range(DocTokens(d)) :
            (/\ Inferable(d, T)
             /\ BrandsUpTo(docs[d].thread_id, d) = <<>>
             /\ ThreadBrands(docs[d].thread_id) # <<>>) =>
                /\ Pass2RowsOf(d, T) # {}
                /\ \A i \in Pass2RowsOf(d, T) :
                      \E b \in MostFrequent(ThreadBrands(docs[d].thread_id)) :
                          InferredFrom(i, b, T)

\* C7: every step that records the outcome of Pass 2 for a document starts
\* from thread counters that hold the Pass-1 brands of the whole batch, so a
\* token of an earlier document is resolved from a brand that only a later
\* document of its thread names.
C7_ContextBarrier ==
    /\ [][(rows' # rows \/ candidate_counter' # candidate_counter)
            => ThreadCountsComplete]_vars
    /\ []ForwardResolved
\* a token resolved from an explicit brand found only later in its thread
C7_Witness ==
    /\ Written
    /\ \E d \in DOMAIN docs : \E T \in Range(DocTokens(d)) :
          /\ Inferable(d, T)
          /\ BrandsUpTo(docs[d].thread_id, d) = <<>>
          /\ ThreadBrands(docs[d].thread_id) # <<>>
          /\ Pass2RowsOf(d, T) # {}


(***************************************************************************)
(* What a reducers' run holds, read from its mentions table                *)
(***************************************************************************)
Ranked == pc = "ranked"

\* the votes rows of each batch
PartAggs ==
    LET F[k \in 0..Len(parts)] ==
            IF k = 0 THEN <<>>
            ELSE Append(F[k - 1], ScoreVotesAgg(SubTable(mentions_csv, parts[k])))
    IN F[Len(parts)]
\* the identity that each mention is ranked under: the key of the display of
\* the votes row that counted it in its batch
RankKeys ==
    LET aggs == PartAggs
        am == LoadedAliases
        RankKeyOf(i) ==
            LET k == canonical_key_from_model(mentions_csv[i].canonical_model)
                p == CHOOSE q \in DOMAIN parts : i \in parts[q]
                row == CHOOSE r \in aggs[p] : r.canonical_key = k
            IN normalize(am, row.canonical_model)[1]
        F[i \in 0..Len(mentions_csv)] ==
            IF i = 0 THEN <<>> ELSE Append(F[i - 1], RankKeyOf(i))
    IN F[Len(mentions_csv)]
\* the positions of the mentions merged into the ranked identity k
MergedInto(keys, k) == {i \in DOMAIN keys : keys[i] = k}
\* the vote weights of the mentions at the positions S
WeightsAt(S) ==
    LET F[i \in 0..Len(mentions_csv)] ==
            IF i = 0 THEN <<>>
            ELSE IF i \in S
                 THEN Append(F[i - 1], vote_weight(mentions_csv[i].score,
                                                   mentions_csv[i].doc_kind))
                 ELSE F[i - 1]
    IN F[Len(mentions_csv)]
MeanAt(S) == Rat(SumInts(WeightsAt(S)), Cardinality(S))
\* the ranked rows of one run of each reducer over the whole table
WholeRanked ==
    RankAgg(LoadedAliases,
            CHOOSE o \in SortValuesDesc(ScoreVotesAgg(mentions_csv), "vote_score") : TRUE)

\* C8: unique_threads of a ranked row is the number of distinct thread ids
\* among the mentions merged into it, however the mentions were cut into
\* batches (so the two-stage merge gives what one aggregation gives).
C8_UniqueThreadsDistinct ==
    Ranked =>
        LET keys == RankKeys
        IN \A j \in DOMAIN ranked_csv :
              ranked_csv[j].unique_threads =
                  Cardinality({mentions_csv[i].thread_id :
                                  i \in MergedInto(keys, ranked_csv[j].canonical_key)})

\* C9: when the table is cut in two batches, each scored on its own and the
\* two votes files merged by the ranker, every ranked row has the number of
\* its mentions, the sum of their weights and their mean weight, the same as
\* one aggregation of the whole table gives.  (Weights are carried exactly;
\* the rounding of binary floating point is outside this statement.)
C9_TwoStageMerge ==
    (Ranked /\ Len(parts) = 2) =>
        LET keys == RankKeys
            whole == WholeRanked
        IN \A j \in DOMAIN ranked_csv :
              LET r == ranked_csv[j]
                  ws == WeightsAt(MergedInto(keys, r.canonical_key))
              IN /\ r.mentions = Len(ws)
                 /\ r.vote_score = SumInts(ws)
                 /\ r.avg_vote = Rat(SumInts(ws), Len(ws))
                 /\ \E w \in whole :
                       /\ w.canonical_key = r.canonical_key
                       /\ w.mentions = r.mentions
                       /\ w.vote_score = r.vote_score
                       /\ w.avg_vote = r.avg_vote
\* a ranked identity with mentions in both batches, more in one than in the
\* other and of a different mean weight
C9_Witness ==
    /\ Ranked
    /\ Len(parts) = 2
    /\ \E j \in DOMAIN ranked_csv :
          LET M == MergedInto(RankKeys, ranked_csv[j].canonical_key)
              a == M \cap parts[1]
              b == M \cap parts[2]
          IN /\ a # {} /\ b # {}
             /\ Cardinality(a) # Cardinality(b)
             /\ MeanAt(a) # MeanAt(b)

\* C10: of two ranked rows with equal score, the one whose display name is
\* lexicographically smaller has the smaller rank.
C10_TieBreakDisplayName ==
    Ranked =>
        \A i, j \in DOMAIN ranked_csv :
            (/\ ranked_csv[i].score_v2 = ranked_csv[j].score_v2
             /\ StrLess(ranked_csv[i].canonical_model, ranked_csv[j].canonical_model))
            => ranked_csv[i].rank < ranked_csv[j].rank

\* the last space-separated segment of a display
TrailingSegment(d) == Slice(d, LastSpace(d) + 1, Len(d))
\* the characters of a display that are neither letters, digits nor spaces
NonAlnum(d) == Cardinality({p \in DOMAIN d : ~IsAlnum(d[p]) /\ d[p] # " "})
\* the stated preference between two equally frequent displays
PreferredTo(a, b) ==
    LET ha == "-" \in Range(TrailingSegment(a))
        hb == "-" \in Range(TrailingSegment(b))
    IN \/ ha /\ ~hb
       \/ ha = hb /\ NonAlnum(a) < NonAlnum(b)
       \/ ha = hb /\ NonAlnum(a) = NonAlnum(b) /\ Len(a) < Len(b)
       \/ ha = hb /\ NonAlnum(a) = NonAlnum(b) /\ Len(a) = Len(b) /\ StrLess(a, b)
\* the cleaned display of the mention at position i
CleanedAt(i) == clean_display_model(mentions_csv[i].canonical_model)
\* the display the stated rule selects for the mentions at the positions S
SelectedDisplay(S) ==
    LET n(d) == Cardinality({i \in S : CleanedAt(i) = d})
        ds == {CleanedAt(i) : i \in S}
        top == {d \in ds : \A e \in ds : n(e) <= n(d)}
    IN CHOOSE d \in top : \A e \in top \ {d} : PreferredTo(d, e)

\* C11: the display name of a ranked row is the most frequent cleaned display
\* among the mentions merged into it; among equally frequent ones, one with a
\* hyphen in its trailing segment comes first, then one with fewer
\* non-alphanumeric characters, then the shorter, then the smaller.
C11_DisplayNameSelection ==
    Ranked =>
        LET keys == RankKeys
        IN \A j \in DOMAIN ranked_csv :
              ranked_csv[j].canonical_model =
                  SelectedDisplay(MergedInto(keys, ranked_csv[j].canonical_key))

\* C12: two mentions are counted in the same ranked row exactly when they
\* carry the same canonical_key: every mention is counted in one ranked row,
\* no two ranked rows have the same key, mentions of one key are in one row
\* and mentions of different keys are in different rows.
C12_GroupingByKey ==
    Ranked =>
        LET keys == RankKeys
        IN /\ \A i \in DOMAIN mentions_csv :
                 \E j \in DOMAIN ranked_csv : ranked_csv[j].canonical_key = keys[i]
           /\ \A j, k \in DOMAIN ranked_csv :
                 ranked_csv[j].canonical_key = ranked_csv[k].canonical_key => j = k
           /\ \A i, k \in DOMAIN mentions_csv :
                 (mentions_csv[i].canonical_key = mentions_csv[k].canonical_key)
                     <=> (keys[i] = keys[k])

\* k has only the letters a-z and the digits 0-9
LowerAlnumOnly(k) == \A p \in DOMAIN k : k[p] \in LowerSet \cup DigitSet
\* the canonical_key column of a table
KeysOf(csv) == {csv[i].canonical_key : i \in DOMAIN csv}

\* C13: every canonical_key of an alias record, of a mention row, of a votes
\* row and of a ranked row has only lowercase letters and digits.
C13_KeyAlphabet ==
    /\ \A a \in DOMAIN alias_map : LowerAlnumOnly(alias_map[a].canonical_key)
    /\ \A i \in DOMAIN rows : LowerAlnumOnly(rows[i].canonical_key)
    /\ pc \in {"done", "scored", "ranked"} =>
          \A k \in KeysOf(mentions_csv) : LowerAlnumOnly(k)
    /\ pc \in {"scored", "ranked"} => \A k \in KeysOf(votes_csv) : LowerAlnumOnly(k)
    /\ pc = "ranked" => \A k \in KeysOf(ranked_csv) : LowerAlnumOnly(k)

\* C14: the ranked rows carry the ranks 1..N, each once, N being the number
\* of identities the mentions are ranked under, and a row of greater rank
\* never has a greater score.
C14_DenseRanks ==
    Ranked =>
        /\ {ranked_csv[i].rank : i \in DOMAIN ranked_csv}
               = 1..Cardinality(Range(RankKeys))
        /\ \A i, j \in DOMAIN ranked_csv :
              /\ ranked_csv[i].rank = ranked_csv[j].rank => i = j
              /\ ranked_csv[i].rank < ranked_csv[j].rank
                    => ranked_csv[i].score_v2 >= ranked_csv[j].score_v2
\* three ranked rows, two of them with the same score and one with another
C14_Witness ==
    /\ Ranked
    /\ Len(ranked_csv) = 3
    /\ \E i, j, k \in DOMAIN ranked_csv :
          /\ i # j
          /\ ranked_csv[i].score_v2 = ranked_csv[j].score_v2
          /\ ranked_csv[k].score_v2 # ranked_csv[i].score_v2

(***************************************************************************)
(* What the normalizer returned                                            *)
(***************************************************************************)
Returned == pc = "returned"

\* C15: the fused, the hyphenated and the spaced spelling of a series letter
\* and its 2 to 4 digits have one canonical_key, and the explicit mention of
\* the hyphenated spelling after a brand gets the keys that the explicit
\* mention of the fused spelling gets.
C15_KeyStability ==
    (Returned /\ norm_in.kind = "series") =>
        /\ \A i \in DOMAIN norm_out : norm_out[i].key = norm_out[1].key
        /\ norm_out[2].explicit = norm_out[1].explicit
\* 'KEF Q150' and 'KEF Q-150': one explicit mention each
C15_Witness ==
    /\ Returned
    /\ norm_in.kind = "series"
    /\ norm_in.xs[2] = BRANDS[1] \o <<" ", "Q", "-", "1", "5", "0">>
    /\ Len(norm_out[2].explicit) = 1
    /\ norm_out[2].display # norm_in.xs[2]

\* C16: every spelling of the B&W brand before a model token has the
\* canonical_key of the fused form 'bw' + token.
C16_BrandFolding ==
    (Returned /\ norm_in.kind = "bw") =>
        \A i \in DOMAIN norm_out : norm_out[i].key = norm_out[1].key

\* C17: normalize_display applied to its own result returns the result.
C17_Idempotent ==
    Returned => \A i \in DOMAIN norm_out : norm_out[i].again = norm_out[i].display
\* a string that normalize_display changes by collapsing letter, hyphen, digits
C17_Witness ==
    /\ Returned
    /\ norm_in.kind = "string"
    /\ norm_in.xs[1] = <<"Q", "-", "1", "1">>
    /\ norm_out[1].display = <<"Q", "1", "1">>

(***************************************************************************)
(* How a run ends                                                          *)
(***************************************************************************)
\* the alias file is missing, cannot be opened, is not utf-8 or has no row
\* with an alias cell
Malformed(file) ==
    \/ ~file.exists
    \/ ~file.readable
    \/ ~file.utf8
    \/ \A i \in DOMAIN file.rows : Strip(file.rows[i].alias) = <<>>

\* C18: with a missing or malformed alias file (and a well-formed document
\* table) the alias table is empty and the extraction run does not fail.
C18_AliasFallback ==
    (Malformed(alias_file) /\ MissingColumn(columns) = "") =>
        /\ exit = NoExit
        /\ pc # "failed"
        /\ alias_map = EmptyAliasMap

C20_NoMatchesNotError ==
    (pc \in {"done", "scored", "ranked", "failed"} /\ rows = <<>>
        /\ MissingColumn(columns) = "" /\ ~_load_aliases_raises(alias_file)) =>
        /\ exit = NoExit
        /\ mentions_csv = <<>>
        /\ pc \in {"scored", "ranked"} => votes_csv = <<>>
        /\ pc = "ranked" => ranked_csv = <<>>

(***************************************************************************)
(* The reducers over a table whose rows arrive in another order            *)
(***************************************************************************)
\* the orders n rows can arrive in
Perms(n) == {f \in [1..n -> 1..n] : \A i, j \in 1..n : f[i] = f[j] => i = j}
\* the table m with its rows in the order f
Permuted(m, f) == [i \in DOMAIN m |-> m[f[i]]]
\* the ranked tables one run of each reducer can write for the mentions m
ReduceOutcomes(am, m) ==
    UNION {{WithRank(o) : o \in SortValuesDesc(RankAgg(am, v), "score_v2")}
           : v \in SortValuesDesc(ScoreVotesAgg(m), "vote_score")}

Sign(s) == IF s < 0 THEN 0 - 1 ELSE IF s > 0 THEN 1 ELSE 0
\* (1 + sign(s) * ln(1 + |s|)) * m, m being 1.35 for a post and 1.0 for a
\* comment, in the units of a weight
StatedWeight(s, kind) ==
    (10000 + Sign(s) * log1p(Abs(s))) * (CASE kind = "post" -> 27 [] kind = "comment" -> 20)
\* the stated weights of the mentions counted in the votes row of key k, each
\* from the score and the kind of the document the mention was found in
StatedWeightsOf(k) ==
    LET F[i \in 0..Len(mentions_csv)] ==
            IF i = 0 THEN <<>>
            ELSE IF canonical_key_from_model(mentions_csv[i].canonical_model) = k
                 THEN Append(F[i - 1],
                             StatedWeight(docs[mentions_csv[i].doc_id].score,
                                          docs[mentions_csv[i].doc_id].doc_kind))
                 ELSE F[i - 1]
    IN F[Len(mentions_csv)]

\* C22: every mention is counted with the weight
\* (1 + sign(s) * ln(1 + |s|)) * m of its document's score s and kind (m is
\* 1.35 for a post, 1.0 for a comment): a votes row has the sum and the mean
\* of these weights over its mentions.
C22_VoteWeight ==
    pc \in {"scored", "ranked"} =>
        \A j \in DOMAIN votes_csv :
            LET Sums(ws) ==
                    /\ votes_csv[j].mentions = Len(ws)
                    /\ votes_csv[j].vote_score = SumInts(ws)
                    /\ votes_csv[j].avg_vote = Rat(SumInts(ws), Len(ws))
            IN Sums(StatedWeightsOf(votes_csv[j].canonical_key))
\* the mentions of a comment with a negative score have been scored
C22_Witness ==
    /\ pc = "scored"
    /\ docs[1].score < 0
    /\ docs[1].doc_kind = "comment"
    /\ \E j \in DOMAIN votes_csv :
          votes_csv[j].vote_score = votes_csv[j].mentions * (10000 - 10986) * 20

(***************************************************************************)
(* The candidate report of a run                                           *)
(***************************************************************************)
\* the occurrences of the surviving standalone token T in the first n documents
RECURSIVE OccUpTo(_, _)
OccUpTo(T, n) == IF n = 0 THEN 0 ELSE OccUpTo(T, n - 1) + Occ(DocTokens(n), T)
\* the surviving standalone tokens of the batch
BatchTokens == UNION {Range(DocTokens(d)) : d \in DOMAIN docs}

\* C23: the candidate report of a run has one row per surviving standalone
\* token of the batch, with the number of the token's surviving occurrences in
\* all documents as its count, whether an occurrence was resolved by an alias,
\* by an inferred brand, or gave no mention.
C23_CandidateTracking ==
    Written =>
        /\ \A T \in BatchTokens : CounterGet(cand_csv, T) = OccUpTo(T, Len(docs))
        /\ \A k \in DOMAIN cand_csv : cand_csv[k][1] \in BatchTokens
        /\ \A k, l \in DOMAIN cand_csv : cand_csv[k][1] = cand_csv[l][1] => k = l
\* a token that passes the context gate and finds no brand is in the report,
\* next to a token that gave a row
C23_Witness ==
    /\ Written
    /\ \E d \in DOMAIN docs : \E T \in Range(DocTokens(d)) :
          /\ Inferable(d, T)
          /\ UsedBrands(d) = <<>>
          /\ \A e \in DOMAIN docs : Pass2RowsOf(e, T) = {}
          /\ CounterGet(cand_csv, T) = OccUpTo(T, Len(docs))
    /\ \E d \in DOMAIN docs : \E T \in Range(DocTokens(d)) : Pass2RowsOf(d, T) # {}

(***************************************************************************)
(* The order of a document's rows                                          *)
(***************************************************************************)
\* the explicit matches of a text: where each starts and the text it spans
ExplicitSpansOf(raw) ==
    LET text == prepare_text_for_matching(raw)
        ms == MENTION_RE_1_finditer(text)
    IN IF Strip(raw) = <<>> THEN <<>>
       ELSE [i \in DOMAIN ms |-> [from |-> ms[i].from,
                                  found |-> Slice(text, ms[i].from, ms[i].to)]]
ExplicitSpans == {<<raw, ExplicitSpansOf(raw)>> : raw \in PoolTexts}
\* the surviving standalone matches of a text: where each starts and its token
SurvivingSpansOf(raw) ==
    LET text == prepare_text_for_matching(raw)
        ms == STANDALONE_RE_finditer(text)
        toks == [i \in DOMAIN ms |-> [from |-> ms[i].from, token |-> TokenNorm(text, ms[i])]]
    IN IF Strip(raw) = <<>> THEN <<>>
       ELSE SelectSeq(toks, LAMBDA t : looks_like_real_model(t.token))
SurvivingSpans == {<<raw, SurvivingSpansOf(raw)>> : raw \in PoolTexts}
\* the matches of seq come in the order of their places in the text
TextOrder(seq) == \A k, l \in DOMAIN seq : k < l => seq[k].from < seq[l].from
\* the rows of document d in the written table, in the table's order
RowsOfDoc(d) == SelectSeq(mentions_csv, LAMBDA r : r.doc_id = d)

\* C24: the rows of one document in the written table are its brand_token
\* rows, one per explicit match in the left-to-right order of the matches,
\* followed by its alias_token and inferred_brand rows, one per resolved
\* standalone token in the left-to-right order of the tokens.
C24_EmissionOrder ==
    Written =>
        \A d \in DOMAIN docs :
            LET Ordered(rs, p1, p2) ==
                    /\ TextOrder(p1)
                    /\ TextOrder(p2)
                    /\ Len(rs) = Len(p1) + Len(p2)
                    /\ \A k \in DOMAIN p1 :
                          /\ rs[k].method = W_brand_token
                          /\ rs[k].found_text = p1[k].found
                    /\ \A k \in DOMAIN p2 :
                          /\ rs[Len(p1) + k].method \in {W_alias_token, W_inferred_brand}
                          /\ rs[Len(p1) + k].model_token = p2[k].token
            IN Ordered(RowsOfDoc(d),
                       Lookup(ExplicitSpans, docs[d].text),
                       SelectSeq(Lookup(SurvivingSpans, docs[d].text),
                                 LAMBDA t : Pass2RowsOf(d, t.token) # {}))
\* a document with rows of several explicit matches and of several standalone
\* tokens, no two of one pass alike
C24_Witness ==
    /\ Written
    /\ \E d \in DOMAIN docs :
          LET rs == RowsOfDoc(d)
          IN /\ Len(rs) >= 4
             /\ rs[2].method = W_brand_token
             /\ rs[1].found_text # rs[2].found_text
             /\ rs[Len(rs) - 1].method # W_brand_token
             /\ rs[Len(rs) - 1].model_token # rs[Len(rs)].model_token

(***************************************************************************)
(* The extraction run over a batch whose documents come in another order   *)
(***************************************************************************)
\* the thread counters after loop 1 has gone through the documents ds
RECURSIVE ContextAfter(_, _)
ContextAfter(tbc, ds) ==
    LET Counted(r, text) ==
            IF Strip(r.text) = <<>> \/ r.thread_id = "" THEN tbc
            ELSE [tbc EXCEPT ![r.thread_id] =
                    CountBrands(@, text, MENTION_RE_1_finditer(text))]
    IN IF ds = <<>> THEN tbc
       ELSE ContextAfter(Counted(Head(ds), prepare_text_for_matching(Head(ds).text)),
                         Tail(ds))
\* the rows after loop 2 has gone through the documents ds
RECURSIVE RowsAfter(_, _, _, _)
RowsAfter(rs, am, tbc, ds) ==
    LET Both(r, text, ms1) ==
            Pass2Loop([rows |-> rs \o Pass1Rows(am, r, text, ms1), counter |-> <<>>],
                      am, r, text, STANDALONE_RE_finditer(text),
                      extract_context_words(r.text), ThreadCounts(tbc, r.thread_id),
                      CountBrands(<<>>, text, ms1)).rows
        Matched(r, text) == Both(r, text, MENTION_RE_1_finditer(text))
        Doc(r) ==
            IF Strip(r.text) = <<>> THEN rs
            ELSE Matched(r, prepare_text_for_matching(r.text))
    IN IF ds = <<>> THEN rs
       ELSE RowsAfter(Doc(Head(ds)), am, tbc, Tail(ds))
\* the rows of a run over the documents ds
RunRows(am, ds) == RowsAfter(<<>>, am, ContextAfter([t \in Threads |-> <<>>], ds), ds)
\* the mentions of a table, each as its brand, key, method and confidence
Emitted(rs) ==
    [i \in DOMAIN rs |-> [brand |-> rs[i].brand, canonical_key |-> rs[i].canonical_key,
                          method |-> rs[i].method, confidence |-> rs[i].confidence]]
\* two tables hold the same mentions, each as many times
SameMentions(a, b) ==
    /\ Len(a) = Len(b)
    /\ \A x \in Range(a) \cup Range(b) : Occ(a, x) = Occ(b, x)

\* C25: the mentions of the written table (each as its brand, canonical key,
\* method and confidence, and as many times) are those that a run over the
\* same documents in any other order emits.
C25_DocumentOrderIndependent ==
    Written =>
        /\ rows = RunRows(LoadedAliases, docs)
        /\ \A f \in Perms(Len(docs)) :
              SameMentions(Emitted(RunRows(LoadedAliases, Permuted(docs, f))),
                           Emitted(mentions_csv))

(***************************************************************************)
(* The brand column of the explicit mentions                               *)
(***************************************************************************)
\* C26: the row of an explicit match whose key has no alias entry has, as its
\* brand, the whole catalog brand that was matched, normalized, also when the
\* brand is of several words.
C26_ExplicitBrandWhole ==
    Written =>
        \A d \in DOMAIN docs :
            LET Whole(rs, bs) ==
                    \A k \in DOMAIN bs :
                        (/\ rs[k].method = W_brand_token
                         /\ ~has_alias(LoadedAliases,
                                       Strip(bs[k] \o <<" ">> \o rs[k].model_token)))
                            => rs[k].brand = bs[k]
            IN Whole(RowsOfDoc(d), DocBrands(d))

(***************************************************************************)
(* The key of a mention, from the extraction to the ranked table           *)
(***************************************************************************)
\* C27: every mention is counted in a ranked row whose canonical_key is the
\* canonical_key the extraction wrote for the mention, and every ranked row
\* has the key of a mention, also when the key is the canonical_key cell of
\* an alias row.
C27_KeyPreserved ==
    Ranked =>
        LET Kept(keys) ==
                /\ \A i \in DOMAIN mentions_csv : keys[i] = mentions_csv[i].canonical_key
                /\ \A j \in DOMAIN ranked_csv :
                      \E i \in DOMAIN mentions_csv :
                          ranked_csv[j].canonical_key = mentions_csv[i].canonical_key
        IN Kept(RankKeys)


(***************************************************************************)
(* C28                                                                     *)
(***************************************************************************)
\* the exit codes logged so far, in the order the steps returned
LoggedCodes == [i \in 1..Len(full_log) |-> full_log[i].exit_code]
\* a step taken by the script of step k of the runner
ScriptStep(k) ==
    IF k = 1 THEN pc = "request" /\ pc' # pc
    ELSE IF k = 2 THEN pc \in {"start", "aliases", "context", "extract"} /\ (pc' # pc \/ idx' # idx)
    ELSE IF k = 3 THEN pc = "done" /\ pc' \in {"scored", "failed"}
    ELSE pc = "scored" /\ pc' \in {"ranked", "failed"}
\* parse_reddit_json.py exits within the step that logs it
EarlierReturned(k) == IF k = 1 THEN 0 ELSE k - 1
\* what the log and the answer look like at any time
C28_Log ==
    /\ Len(full_log) <= Len(steps)
    /\ \A i \in 1..Len(full_log) : full_log[i].label = steps[i]
    /\ \A i \in 1..Len(full_log) : i < Len(full_log) => full_log[i].exit_code = 0
    /\ (full_log # <<>> /\ full_log[Len(full_log)].exit_code # 0) =>
          /\ response = FailureResponse(full_log[Len(full_log)].label)
          /\ response.status = 500
    /\ (response # NoResponse /\ ~response.ok) =>
          /\ full_log # <<>>
          /\ full_log[Len(full_log)].exit_code # 0
          /\ response.failed_step = steps[Len(full_log)]
    /\ response.ok =>
          /\ Len(full_log) = Len(steps)
          /\ \A i \in 1..Len(steps) : full_log[i].exit_code = 0
          /\ response.status = 200
\* when a script takes a step
C28_Start ==
    /\ \A k \in 1..Len(steps) :
          ScriptStep(k) =>
              /\ response = NoResponse
              /\ Len(full_log) = EarlierReturned(k)
              /\ \A i \in 1..Len(full_log) : full_log[i].exit_code = 0
    /\ response # NoResponse => (pc' = pc /\ idx' = idx /\ full_log' = full_log)

\* C28: the runner runs the steps in the order parse, extract, score, rank:
\* the log holds the labels of a prefix of the steps in that order; the script
\* of a step takes a step only when every earlier step has returned exit code
\* 0 and nothing has been answered; at the first step with another exit code
\* nothing more is run and the answer is a failure with status 500 naming that
\* step as failed_step; success is answered only when all four steps returned
\* 0.
C28_StageOrder == []C28_Log /\ [][C28_Start]_vars

\* the score step failed after parse and extraction returned 0, and the
\* runner answered
C28_Witness ==
    /\ Len(full_log) = 3
    /\ LoggedCodes = <<0, 0, 1>>
    /\ response = FailureResponse("score_votes_v2.py")
    /\ pc = "failed"

====
